---- MODULE Spec2Model ----
(***************************************************************************)
(* Class-keyed text extraction and cross-page aggregation of the MVNO      *)
(* scrapers (Amobile, Wooriwonmobile, Insmobile, Sugarmobile).             *)
(*                                                                         *)
(* Python str values are TLA+ strings; a dict is a function whose domain   *)
(* is its key set; a list is a sequence.                                   *)
(***************************************************************************)
EXTENDS Integers, Sequences, FiniteSets, TLC

VARIABLES
    scraper,                          \* which script's main() is running
    minimum_class_support_threshold,  \* module-level setting of the script
    collected_link_rows,              \* the detail links handed to the loop
    index_value,                      \* 1-based position of the detail loop
    pc,                               \* position of main(): "crawl", "done", "aborted"
    fetch_results,                    \* per visited link: did the fetch succeed, and the ClassTextMap
    detail_page_records,              \* Amobile/Wooriwonmobile: list of merged record dicts
    class_name_support_counter,       \* Amobile/Wooriwonmobile: Counter of class -> pages
    page_class_maps,                  \* Insmobile: list of (url, class_map)
    final_header_column_names,        \* header row written to the CSV
    csv_rows,                         \* data rows written to the CSV
    extractor,                        \* extraction run: which extractor is applied
    html_source_text,                 \* extraction run: the parsed document
    extracted_mapping,                \* extraction run: the returned dict
    xpc,                              \* extraction run: "parse", "parsed" or "returned"
    max_text_length,                  \* extraction run: the per-cell length cap in effect
    parsed_class_map,                 \* extraction run: Siwol's dict of text lists
    driver,                           \* counting run: the script whose main() runs
    all_detail_urls,                  \* counting run: the URLs as collected or read
    uniq_urls,                        \* SK_7mobile_cwl.main: the URLs without repeats
    input_rows,                       \* LG_UMobile_Data_collector.main: the same
    url_index,                        \* counting run: enumerate position i
    rows,                             \* SK_7mobile_cwl.main: URLs of the parsed rows
    failed,                           \* SK_7mobile_cwl.main: list of (url, why)
    out_csv_rows,                     \* LG_UMobile_Data_collector: rows appended to OUT_CSV
    total_ok,                         \* LG_UMobile_Data_collector.main
    total_bad,                        \* LG_UMobile_Data_collector.main
    outcomes,                         \* counting run: what each visited URL did
    dpc,                              \* counting run: "load", "loop", "done" or "idle"
    siwol_detail_urls,                \* siwol_scraper.main: all_detail_urls after dedup
    siwol_index,                      \* siwol_scraper.main: position in the URL loop
    per_page_class_texts,             \* siwol_scraper.main: one dict per URL
    observed_classes,                 \* siwol_scraper.main: the set all_classes
    wide_rows,                        \* siwol_scraper.main: rows of the wide table
    long_records,                     \* siwol_scraper.main: records of the long table
    spc,                              \* siwol_scraper.main: "pages", "wide", "long", "done"
    urls,                             \* crawler_playwright.main: the (seq, up, dev, url) list
    concurrency,                      \* crawler_playwright.main: args.concurrency
    semaphore,                        \* crawler_playwright: free slots of the Semaphore
    task_pc,                          \* crawler_playwright.fetch_page: where each task is
    browser_open,                     \* crawler_playwright.fetch_page: task's browser is open
    task_result,                      \* crawler_playwright.fetch_page: what each task returned
    completed,                        \* crawler_playwright.main: tasks in order of completion
    written_rows,                     \* crawler_playwright.main: rows given to the writer
    awaited,                          \* crawler_playwright.main: results taken from as_completed
    mpc,                              \* crawler_playwright.main: "running", "done", "raised"
    rate_per_sec,                     \* test.py: args.rate, in 1/10000 requests per second
    worker_count,                     \* test.py: args.concurrency
    clock,                            \* test.py: time.monotonic(), in tenths of a second
    work_queue,                       \* test.py main: the asyncio.Queue, oldest entry first
    unfinished_tasks,                 \* test.py main: puts not yet answered by task_done()
    worker_pc,                        \* test.py worker: where each worker is
    worker_item,                      \* test.py worker: the item each worker holds
    lock_locked,                      \* RateLimiter._lock: Lock._locked
    lock_waiters,                     \* RateLimiter._lock: Lock._waiters, oldest first
    lock_woken,                       \* RateLimiter._lock: waiters whose future was resolved
    limiter_last,                     \* RateLimiter._last
    wake_at,                          \* RateLimiter.wait: when each worker's sleep is due
    wait_returns,                     \* clock value at each return from RateLimiter.wait()
    request_log,                      \* test.py worker: items in the order they were requested
    failed_fetches,                   \* test.py worker: items logged as FAILED FETCH
    plan_rows,                        \* test.py worker: items whose row was written
    tpc,                              \* test.py main: "join", "gather", "done" or "idle"
    fetched,                          \* test.py worker: the item and what fetch last returned for it
    taken_items,                      \* test.py worker: what queue.get() handed out, in order
    task_done_calls,                  \* test.py worker: queue.task_done() calls per queue entry
    running,                          \* test.py: the worker the event loop is running, 0 between tasks
    fallback_urls,                    \* Amobile detail loop: the detail URLs to fetch
    fallback_index,                   \* Amobile detail loop: 1-based position of the loop
    fallback_pc,                      \* fetch_detail_html_with_fallback: the await it is at
    fallback_attempt,                 \* fetch_detail_html_with_fallback: 1 in the outer try, 2 in the inner
    page_open,                        \* fetch_detail_html_with_fallback: the page of this call is open
    navigations,                      \* fetch_detail_html_with_fallback: page.goto calls of this call
    attempt_outcomes,                 \* fetch_detail_html_with_fallback: how each attempt of this call ended
    fallback_return,                  \* fetch_detail_html_with_fallback: the value a return statement has set
    fallback_calls,                   \* Amobile detail loop: one record per finished call
    modal_cards,                      \* ktmmobile_modal_scrape iterate_cards: per card, the dialog targets of its triggers
    modal_card_index,                 \* ktmmobile_modal_scrape iterate_cards: i + 1 of the card loop
    modal_trigger_index,              \* ktmmobile_modal_scrape iterate_cards: position in the triggers of the card
    modal_el,                         \* ktmmobile_modal_scrape iterate_cards: id of the element click_and_wait_modal returned
    open_modals,                      \* ktmmobile_modal_scrape: ids of the dialogs shown on the page
    modal_rows,                       \* ktmmobile_modal_scrape iterate_cards: rows appended to out_csv
    modal_pc,                         \* ktmmobile_modal_scrape iterate_cards: "card", "click", "check", "extract", "done", "raised"
    retry_max_retries,                \* siwol_scraper.fetch: max_retries
    retry_attempt,                    \* siwol_scraper.fetch: attempt of the for loop
    retry_pc,                         \* siwol_scraper.fetch: "get", "raise_for_status", "sleep", "returned", "raised"
    retry_errors,                     \* siwol_scraper.fetch: the exception of each failed attempt
    retry_sleeps,                     \* siwol_scraper.fetch: the time.sleep calls, in tenths of a second
    retry_result,                     \* siwol_scraper.fetch: the text returned or the exception raised
    list_page,                        \* the list page the browser shows: its cards' id attributes and its next button
    maximum_list_pages_to_visit,      \* the configured page limit, 0 standing for None
    visited_page_count,               \* visited_page_count of iterate_rate_plan_list_pages
    collected_rows,                   \* collected_rows, each row given by its plan_identifier
    seen_plan_identifier_set,         \* seen_plan_identifier_set
    first_plan_identifier_before,     \* first_plan_identifier_before, "" standing for None
    stop_reason,                      \* which statement left the while loop
    pagination_pc,                    \* position of iterate_rate_plan_list_pages
    list_responses,                   \* LG_UMobile_URL_collector: what each of LIST_URLS answers, in order
    list_index,                       \* LG_UMobile_URL_collector.main: 1-based position in LIST_URLS
    seen_keys,                        \* LG_UMobile_URL_collector.main: seen_keys
    appended_rows,                    \* LG_UMobile_URL_collector: rows appended to OUT_CSV by this run
    total,                            \* LG_UMobile_URL_collector.main: total
    collector_pc,                     \* position of LG_UMobile_URL_collector.main
    popup_main_tabs,                  \* scrape_plans.collect_all_plans: main_tabs
    tablist_visible,                  \* scrape_plans: the page shows the main tablist
    page_tabs,                        \* scrape_plans: names of the tabs of the main tablist
    selected_tab,                     \* scrape_plans: the tab with aria-selected, "" for none
    list_items,                       \* scrape_plans: number of rate items the list of the page holds
    popup_tab_index,                  \* scrape_plans.collect_all_plans: 1-based position in main_tabs
    popup_results,                    \* scrape_plans.collect_all_plans: results
    clicked_items,                    \* scrape_plans: the rate items clicked so far, in order
    open_popups,                      \* scrape_plans: the items whose popup is open
    popup_error,                      \* scrape_plans: the exception on its way out, "" for none
    browser_closed,                   \* scrape_plans.main: browser.close() has run
    popup_pc                          \* position of scrape_plans.main

crawl_vars == <<scraper, minimum_class_support_threshold, collected_link_rows,
                index_value, pc, fetch_results, detail_page_records,
                class_name_support_counter, page_class_maps,
                final_header_column_names, csv_rows>>
extract_vars == <<extractor, html_source_text, extracted_mapping, xpc,
                  max_text_length, parsed_class_map>>
count_vars == <<driver, all_detail_urls, uniq_urls, input_rows, url_index, rows,
                failed, out_csv_rows, total_ok, total_bad, outcomes, dpc>>
siwol_vars == <<siwol_detail_urls, siwol_index, per_page_class_texts,
                observed_classes, wide_rows, long_records, spc>>
playwright_vars == <<urls, concurrency, semaphore, task_pc, browser_open, task_result,
                     completed, written_rows, awaited, mpc>>
worker_vars == <<rate_per_sec, worker_count, clock, work_queue, unfinished_tasks,
                 worker_pc, worker_item, lock_locked, lock_waiters, lock_woken,
                 limiter_last, wake_at, wait_returns, request_log, failed_fetches,
                 plan_rows, tpc, fetched, taken_items, task_done_calls, running>>
fallback_vars == <<fallback_urls, fallback_index, fallback_pc, fallback_attempt,
                   page_open, navigations, attempt_outcomes, fallback_return,
                   fallback_calls>>
modal_vars == <<modal_cards, modal_card_index, modal_trigger_index, modal_el,
                open_modals, modal_rows, modal_pc>>
retry_vars == <<retry_max_retries, retry_attempt, retry_pc, retry_errors,
                retry_sleeps, retry_result>>
pagination_vars == <<list_page, maximum_list_pages_to_visit, visited_page_count,
                     collected_rows, seen_plan_identifier_set,
                     first_plan_identifier_before, stop_reason, pagination_pc>>
collector_vars == <<list_responses, list_index, seen_keys, appended_rows, total,
                    collector_pc>>
popup_vars == <<popup_main_tabs, tablist_visible, page_tabs, selected_tab, list_items,
                popup_tab_index, popup_results, clicked_items, open_popups,
                popup_error, browser_closed, popup_pc>>
vars == <<crawl_vars, extract_vars, count_vars, siwol_vars, playwright_vars,
          worker_vars, fallback_vars, modal_vars, retry_vars,
          pagination_vars, collector_vars, popup_vars>>

\* what the actions of one kind of run leave alone
not_crawl_vars == <<extract_vars, count_vars, siwol_vars, playwright_vars,
                    worker_vars, fallback_vars, modal_vars, retry_vars,
                    pagination_vars, collector_vars, popup_vars>>
not_extract_vars == <<crawl_vars, count_vars, siwol_vars, playwright_vars,
                      worker_vars, fallback_vars, modal_vars, retry_vars,
                      pagination_vars, collector_vars, popup_vars>>
not_count_vars == <<crawl_vars, extract_vars, siwol_vars, playwright_vars,
                    worker_vars, fallback_vars, modal_vars, retry_vars,
                    pagination_vars, collector_vars, popup_vars>>
not_siwol_vars == <<crawl_vars, extract_vars, count_vars, playwright_vars,
                    worker_vars, fallback_vars, modal_vars, retry_vars,
                    pagination_vars, collector_vars, popup_vars>>
not_playwright_vars == <<crawl_vars, extract_vars, count_vars, siwol_vars,
                         worker_vars, fallback_vars, modal_vars, retry_vars,
                         pagination_vars, collector_vars, popup_vars>>
not_worker_vars == <<crawl_vars, extract_vars, count_vars, siwol_vars,
                     playwright_vars, fallback_vars, modal_vars, retry_vars,
                     pagination_vars, collector_vars, popup_vars>>
not_fallback_vars == <<crawl_vars, extract_vars, count_vars, siwol_vars,
                       playwright_vars, worker_vars, modal_vars, retry_vars,
                       pagination_vars, collector_vars, popup_vars>>
not_modal_vars == <<crawl_vars, extract_vars, count_vars, siwol_vars,
                    playwright_vars, worker_vars, fallback_vars, retry_vars,
                    pagination_vars, collector_vars, popup_vars>>
not_retry_vars == <<crawl_vars, extract_vars, count_vars, siwol_vars,
                    playwright_vars, worker_vars, fallback_vars, modal_vars,
                    pagination_vars, collector_vars, popup_vars>>
not_pagination_vars == <<crawl_vars, extract_vars, count_vars, siwol_vars,
                         playwright_vars, worker_vars, fallback_vars,
                         modal_vars, retry_vars, collector_vars, popup_vars>>
not_collector_vars == <<crawl_vars, extract_vars, count_vars, siwol_vars,
                        playwright_vars, worker_vars, fallback_vars,
                        modal_vars, retry_vars, pagination_vars, popup_vars>>
not_popup_vars == <<crawl_vars, extract_vars, count_vars, siwol_vars,
                    playwright_vars, worker_vars, fallback_vars, modal_vars,
                    retry_vars, pagination_vars, collector_vars>>

----------------------------------------------------------------------------
(* Bounds of the explored input space *)

MaxLinks == 2            \* detail links in one run
MaxExtractElements == 2  \* elements of a document in an extraction run

ClassNames == {"a", "b"}
Thresholds == 0..3

\* class attributes as bs4 splits them: none, one token, two tokens in
\* either order, one token written twice
ClassAttributes ==
    {<<>>, <<"a">>, <<"b">>, <<"a", "b">>, <<"b", "a">>, <<"a", "a">>}

\* the text nodes below one element: none, one word, blank only, two nodes
\* with surrounding blanks, one node with a run of blanks inside
ElementStrings == {<<>>, <<"x">>, <<"y">>, <<" ">>, <<" x", "y ">>, <<"x  y">>}

----------------------------------------------------------------------------
(* Python str helpers *)

IsSpace(ch) == ch \in {" ", "\t", "\n"}

RECURSIVE lstrip(_)
lstrip(s) ==
    IF Len(s) > 0 /\ IsSpace(SubSeq(s, 1, 1))
    THEN lstrip(SubSeq(s, 2, Len(s)))
    ELSE s

RECURSIVE rstrip(_)
rstrip(s) ==
    IF Len(s) > 0 /\ IsSpace(SubSeq(s, Len(s), Len(s)))
    THEN rstrip(SubSeq(s, 1, Len(s) - 1))
    ELSE s

strip(s) == rstrip(lstrip(s))

\* sep.join(items)
RECURSIVE join(_, _)
join(sep, items) ==
    IF Len(items) = 0 THEN ""
    ELSE IF Len(items) = 1 THEN items[1]
    ELSE items[1] \o sep \o join(sep, Tail(items))

\* the characters of the modelled names, in code point order
AsciiOrder == " +/0123456789:ABCDEFGHIJKLMNOPQRSTUVWXYZ_abcdefghijklmnopqrstuvwxyz"

CharRank(ch) == CHOOSE i \in 1..Len(AsciiOrder) : SubSeq(AsciiOrder, i, i) = ch

\* Python's s < t on str: lexicographic by code point
RECURSIVE StrLess(_, _)
StrLess(s, t) ==
    IF Len(t) = 0 THEN FALSE
    ELSE IF Len(s) = 0 THEN TRUE
    ELSE LET cs == CharRank(SubSeq(s, 1, 1))
             ct == CharRank(SubSeq(t, 1, 1))
         IN  IF cs # ct THEN cs < ct
             ELSE StrLess(SubSeq(s, 2, Len(s)), SubSeq(t, 2, Len(t)))

\* list(dict.fromkeys(items)): drop repeats, keep first occurrences in order
RECURSIVE Dedup(_)
Dedup(items) ==
    IF Len(items) = 0 THEN <<>>
    ELSE LET init == Dedup(SubSeq(items, 1, Len(items) - 1))
             last == items[Len(items)]
         IN  IF \E i \in 1..Len(init) : init[i] = last THEN init ELSE Append(init, last)

Range(items) == {items[i] : i \in 1..Len(items)}

\* all sequences over S of length lo..hi
SeqsOf(S, lo, hi) == UNION {[1..n -> S] : n \in lo..hi}

\* d.update(m) on dicts
DictUpdate(d, m) ==
    [k \in (DOMAIN d) \cup (DOMAIN m) |-> IF k \in DOMAIN m THEN m[k] ELSE d[k]]

\* d.get(k, default)
DictGet(d, k, default) == IF k \in DOMAIN d THEN d[k] ELSE default

EmptyDict == <<>>

----------------------------------------------------------------------------
(* Documents: the elements of a parsed page in document order.  Each      *)
(* element carries its class attribute as bs4 splits it and the text      *)
(* nodes below it.                                                        *)

\* element.get_text(" ", strip=True): strip every text node, drop the
\* empty ones, join with the separator
get_text(element_node, separator) ==
    LET stripped == [i \in 1..Len(element_node.strings) |-> strip(element_node.strings[i])]
        NonEmpty(t) == t # ""
    IN  join(separator, SelectSeq(stripped, NonEmpty))

\* one element: its class attribute as the token list bs4 returns and the
\* text nodes below it, in document order
Elements == [class : ClassAttributes, strings : ElementStrings]

HtmlDocuments == SeqsOf(Elements, 0, MaxExtractElements)

RECURSIVE Flatten(_)
Flatten(lists) ==
    IF Len(lists) = 0 THEN <<>> ELSE lists[1] \o Flatten(Tail(lists))

\* the dict of lists built by appending the (key, text) pairs in order
GroupByKey(pairs) ==
    [k \in {pairs[i].key : i \in 1..Len(pairs)} |->
        LET OfKey(p) == p.key = k
            mine == SelectSeq(pairs, OfKey)
        IN  [i \in 1..Len(mine) |-> mine[i].text]]

----------------------------------------------------------------------------
(* Amobile / Wooriwonmobile: extract_text_grouped_by_css_class *)

\* exclude_class_name_regular_expression = re.compile(r"^\s*$")
exclude_class_name_regular_expression(name) == strip(name) = ""

\* include_class_name_regular_expression = None: every name passes
include_class_name_regular_expression(name) == TRUE

current_element_class_names(element_node) ==
    LET stripped == [i \in 1..Len(element_node.class) |-> strip(element_node.class[i])]
        Kept(name) == /\ name # ""
                      /\ ~exclude_class_name_regular_expression(name)
                      /\ include_class_name_regular_expression(name)
    IN  SelectSeq(stripped, Kept)

\* the appends of an element if only its first class received the text
element_contributions_first_class(element_node) ==
    LET names == current_element_class_names(element_node)
        element_text_content == get_text(element_node, " ")
    IN  IF names = <<>> \/ element_text_content = ""
        THEN <<>>
        ELSE <<[key |-> names[1], text |-> element_text_content]>>

\* the appends of an element if an empty text were not skipped
element_contributions_with_empty_text(element_node) ==
    LET names == current_element_class_names(element_node)
        element_text_content == get_text(element_node, " ")
    IN  IF names = <<>>
        THEN <<>>
        ELSE [j \in 1..Len(names) |-> [key |-> names[j], text |-> element_text_content]]

\* the appends one element makes to class_name_to_texts_mapping
element_contributions(element_node) ==
    LET names == current_element_class_names(element_node)
        element_text_content == get_text(element_node, " ")
    IN  IF names = <<>> \/ element_text_content = ""
        THEN <<>>
        ELSE [j \in 1..Len(names) |-> [key |-> names[j], text |-> element_text_content]]

class_name_to_texts_mapping(html) ==
    GroupByKey(Flatten([i \in 1..Len(html) |-> element_contributions(html[i])]))

\* the second loop if it kept every repeated text
unique_texts_keep_repeats(text_items) ==
    LET normalized == [i \in 1..Len(text_items) |-> strip(text_items[i])]
        NonEmpty(t) == t # ""
    IN  SelectSeq(normalized, NonEmpty)

\* the second loop: strip, drop empties and repeats, join with " | "
unique_texts(text_items) ==
    LET normalized == [i \in 1..Len(text_items) |-> strip(text_items[i])]
        NonEmpty(t) == t # ""
    IN  Dedup(SelectSeq(normalized, NonEmpty))

extract_text_grouped_by_css_class(html) ==
    LET mapping == class_name_to_texts_mapping(html)
    IN  [class_name \in DOMAIN mapping |-> join(" | ", unique_texts(mapping[class_name]))]

----------------------------------------------------------------------------
(* Insmobile: build_class_text_map *)

MAX_TEXT_LENGTH_PER_CELL == 1000
JOIN_DELIMITER == " | "
SKIP_EMPTY_TEXT == TRUE

\* re.sub(r"\s+", " ", text): every whitespace run becomes one space
RECURSIVE collapse_whitespace(_)
collapse_whitespace(text) ==
    IF Len(text) = 0 THEN ""
    ELSE IF IsSpace(SubSeq(text, 1, 1))
         THEN " " \o collapse_whitespace(lstrip(text))
         ELSE SubSeq(text, 1, 1) \o collapse_whitespace(SubSeq(text, 2, Len(text)))

normalize_whitespace(text) == strip(collapse_whitespace(text))

\* the one-character marker U+2026 appended by safe_truncate (written here
\* with an ASCII character that occurs in no modelled text)
ELLIPSIS == "~"

\* the cut if no marker were appended
safe_truncate_without_marker(text, limit) ==
    IF limit # 0 /\ limit > 0 /\ Len(text) > limit
    THEN SubSeq(text, 1, limit)
    ELSE text

safe_truncate(text, limit) ==
    IF limit # 0 /\ limit > 0 /\ Len(text) > limit
    THEN SubSeq(text, 1, limit) \o ELLIPSIS
    ELSE text

build_element_contributions(element) ==
    LET class_list == element.class
        text_value == normalize_whitespace(get_text(element, " "))
        NonEmptyName(name) == name # ""
        names == SelectSeq(class_list, NonEmptyName)
    IN  IF class_list = <<>> \/ (SKIP_EMPTY_TEXT /\ text_value = "")
        THEN <<>>
        ELSE [j \in 1..Len(names) |-> [key |-> names[j], text |-> text_value]]

\* the first loop: class name -> texts of the elements bearing it
class_to_texts(parsed_html) ==
    GroupByKey(Flatten([i \in 1..Len(parsed_html) |->
                           build_element_contributions(parsed_html[i])]))

\* the second loop under a given value of the length option: drop empties
\* and repeats, join, cut
class_to_joined_text(texts_by_class, limit) ==
    LET NonEmpty(t) == t # ""
    IN  [class_name \in DOMAIN texts_by_class |->
            safe_truncate(join(JOIN_DELIMITER,
                               Dedup(SelectSeq(texts_by_class[class_name], NonEmpty))),
                          limit)]

build_class_text_map(parsed_html) ==
    class_to_joined_text(class_to_texts(parsed_html), MAX_TEXT_LENGTH_PER_CELL)

----------------------------------------------------------------------------
(* Sugarmobile: extract_class_aggregates, AGGREGATE_MODE = "text" *)

\* one bucket per class combination: the key is the whole class attribute
aggregate_element_contributions(el) ==
    LET classes == el.class
        key == join(" ", classes)
        content == get_text(el, " ")
    IN  IF classes = <<>> \/ content = ""
        THEN <<>>
        ELSE <<[key |-> key, text |-> content]>>

extract_class_aggregates(soup) ==
    LET bucket == GroupByKey(Flatten([i \in 1..Len(soup) |->
                                         aggregate_element_contributions(soup[i])]))
    IN  [k \in DOMAIN bucket |-> join(" | ", bucket[k])]

----------------------------------------------------------------------------
(* Siwol_Mobile: parse_classes_from_page and safe_join_texts *)

\* re.sub(r'\s+', ' ', s).strip()
squash_spaces(s) == strip(collapse_whitespace(s))

\* the appends one element makes to class_map
parse_element_contributions(el) ==
    LET classes == el.class
        text == get_text(el, " ")
    IN  IF classes = <<>> \/ text = ""
        THEN <<>>
        ELSE [j \in 1..Len(classes) |-> [key |-> classes[j], text |-> squash_spaces(text)]]

\* class name -> list of the texts of the elements bearing it
parse_classes_from_page(html) ==
    GroupByKey(Flatten([i \in 1..Len(html) |-> parse_element_contributions(html[i])]))

\* the default of safe_join_texts' max_len parameter
safe_join_texts_max_len == 4000

\* the loop of safe_join_texts from the state (out, curr_len): texts are
\* taken whole, in order, until the next one would pass max_len
RECURSIVE safe_join_loop(_, _, _, _, _)
safe_join_loop(texts, sep, max_len, out, curr_len) ==
    IF texts = <<>> THEN out
    ELSE LET add == (IF out # <<>> THEN sep ELSE "") \o texts[1]
         IN  IF curr_len + Len(add) > max_len
             THEN out
             ELSE safe_join_loop(Tail(texts), sep, max_len,
                                 Append(out, texts[1]), curr_len + Len(add))

safe_join_texts(texts, sep, max_len) ==
    join(sep, safe_join_loop(texts, sep, max_len, <<>>, 0))

----------------------------------------------------------------------------
(* Extraction run: one document is handed to one extractor *)

\* scrape_plans.main is not running
PopupIdle ==
    /\ popup_main_tabs = <<>>
    /\ tablist_visible = FALSE
    /\ page_tabs = <<>>
    /\ selected_tab = ""
    /\ list_items = 0
    /\ popup_tab_index = 0
    /\ popup_results = <<>>
    /\ clicked_items = <<>>
    /\ open_popups = {}
    /\ popup_error = ""
    /\ browser_closed = FALSE
    /\ popup_pc = "idle"

\* LG_UMobile_URL_collector.main is not running
CollectorIdle ==
    /\ list_responses = <<>>
    /\ list_index = 0
    /\ seen_keys = {}
    /\ appended_rows = <<>>
    /\ total = 0
    /\ collector_pc = "idle"

\* Wooriwonmobile's list pagination is not running
PaginationIdle ==
    /\ list_page = [cards |-> <<>>, next |-> "missing"]
    /\ maximum_list_pages_to_visit = 0
    /\ visited_page_count = 0
    /\ collected_rows = <<>>
    /\ seen_plan_identifier_set = {}
    /\ first_plan_identifier_before = ""
    /\ stop_reason = ""
    /\ pagination_pc = "idle"

\* no call of siwol_scraper.fetch is in progress
RetryIdle ==
    /\ retry_max_retries = 0
    /\ retry_attempt = 0
    /\ retry_pc = "idle"
    /\ retry_errors = <<>>
    /\ retry_sleeps = <<>>
    /\ retry_result = ""

\* no run of ktmmobile_modal_scrape is in progress
ModalIdle ==
    /\ modal_cards = <<>>
    /\ modal_card_index = 0
    /\ modal_trigger_index = 0
    /\ modal_el = "none"
    /\ open_modals = {}
    /\ modal_rows = <<>>
    /\ modal_pc = "idle"

\* no call of Amobile's fetch_detail_html_with_fallback is in progress
FallbackIdle ==
    /\ fallback_urls = <<>>
    /\ fallback_index = 0
    /\ fallback_pc = "idle"
    /\ fallback_attempt = 0
    /\ page_open = FALSE
    /\ navigations = 0
    /\ attempt_outcomes = <<>>
    /\ fallback_return = "unset"
    /\ fallback_calls = <<>>

Extractors == {"Amobile", "Wooriwonmobile", "Insmobile", "Sugarmobile", "Siwol_Mobile"}
\* no run of test.py is in progress
WorkersIdle ==
    /\ rate_per_sec = 0
    /\ worker_count = 0
    /\ clock = 0
    /\ work_queue = <<>>
    /\ unfinished_tasks = 0
    /\ worker_pc = <<>>
    /\ worker_item = <<>>
    /\ lock_locked = FALSE
    /\ lock_waiters = <<>>
    /\ lock_woken = {}
    /\ limiter_last = 0
    /\ wake_at = <<>>
    /\ wait_returns = <<>>
    /\ request_log = <<>>
    /\ failed_fetches = {}
    /\ plan_rows = <<>>
    /\ tpc = "idle"
    /\ fetched = <<>>
    /\ taken_items = <<>>
    /\ task_done_calls = <<>>
    /\ running = 0


\* the values of the per-cell length cap a run is made under: Insmobile's
\* MAX_TEXT_LENGTH_PER_CELL option (0 = no limit) as shipped and set low,
\* Siwol's max_len as defaulted and set low; the other extractors have none
TextLengthLimits(e) ==
    IF e = "Insmobile" THEN {0, 3, 5, MAX_TEXT_LENGTH_PER_CELL}
    ELSE IF e = "Siwol_Mobile" THEN {3, 5, safe_join_texts_max_len}
    ELSE {0}

PlaywrightIdle ==
    /\ urls = <<>>
    /\ concurrency = 0
    /\ semaphore = 0
    /\ task_pc = <<>>
    /\ browser_open = <<>>
    /\ task_result = <<>>
    /\ completed = <<>>
    /\ written_rows = <<>>
    /\ awaited = 0
    /\ mpc = "idle"

SiwolIdle ==
    /\ siwol_detail_urls = <<>>
    /\ siwol_index = 0
    /\ per_page_class_texts = <<>>
    /\ observed_classes = {}
    /\ wide_rows = <<>>
    /\ long_records = <<>>
    /\ spc = "idle"

CountIdle ==
    /\ driver = "none"
    /\ all_detail_urls = <<>>
    /\ uniq_urls = <<>>
    /\ input_rows = <<>>
    /\ url_index = 0
    /\ rows = <<>>
    /\ failed = <<>>
    /\ out_csv_rows = <<>>
    /\ total_ok = 0
    /\ total_bad = 0
    /\ outcomes = <<>>
    /\ dpc = "idle"

ExtractIdle ==
    /\ extractor = "none"
    /\ html_source_text = <<>>
    /\ extracted_mapping = EmptyDict
    /\ xpc = "idle"
    /\ max_text_length = 0
    /\ parsed_class_map = EmptyDict

CrawlIdle ==
    /\ scraper = "none"
    /\ minimum_class_support_threshold = 0
    /\ collected_link_rows = <<>>
    /\ index_value = 0
    /\ pc = "idle"
    /\ fetch_results = <<>>
    /\ detail_page_records = <<>>
    /\ class_name_support_counter = EmptyDict
    /\ page_class_maps = <<>>
    /\ final_header_column_names = <<>>
    /\ csv_rows = <<>>

InitExtract ==
    /\ extractor \in Extractors
    /\ html_source_text \in HtmlDocuments
    /\ extracted_mapping = EmptyDict
    /\ xpc = "parse"
    /\ max_text_length \in TextLengthLimits(extractor)
    /\ parsed_class_map = EmptyDict
    /\ CrawlIdle
    /\ CountIdle
    /\ SiwolIdle
    /\ PlaywrightIdle
    /\ WorkersIdle
    /\ FallbackIdle
    /\ ModalIdle
    /\ RetryIdle
    /\ PaginationIdle
    /\ CollectorIdle
    /\ PopupIdle

\* Amobile_scrape.py and Wooriwonmobile_scrape.py carry the same function
ExtractTextGroupedByCssClass ==
    /\ xpc = "parse"
    /\ extractor \in {"Amobile", "Wooriwonmobile"}
    /\ extracted_mapping' = extract_text_grouped_by_css_class(html_source_text)
    /\ xpc' = "returned"
    /\ UNCHANGED <<extractor, html_source_text, max_text_length, parsed_class_map, not_extract_vars>>

BuildClassTextMap ==
    /\ xpc = "parse"
    /\ extractor = "Insmobile"
    /\ extracted_mapping' =
           class_to_joined_text(class_to_texts(html_source_text), max_text_length)
    /\ xpc' = "returned"
    /\ UNCHANGED <<extractor, html_source_text, max_text_length, parsed_class_map, not_extract_vars>>

ExtractClassAggregates ==
    /\ xpc = "parse"
    /\ extractor = "Sugarmobile"
    /\ extracted_mapping' = extract_class_aggregates(html_source_text)
    /\ xpc' = "returned"
    /\ UNCHANGED <<extractor, html_source_text, max_text_length, parsed_class_map, not_extract_vars>>

\* siwol_scraper.main, step 3, for one fetched page
ParseClassesFromPage ==
    /\ xpc = "parse"
    /\ extractor = "Siwol_Mobile"
    /\ parsed_class_map' = parse_classes_from_page(html_source_text)
    /\ xpc' = "parsed"
    /\ UNCHANGED <<extractor, html_source_text, extracted_mapping, max_text_length,
                   not_extract_vars>>

\* siwol_scraper.main, step 4, the class cells of that page's wide row
SafeJoinTexts ==
    /\ xpc = "parsed"
    /\ extractor = "Siwol_Mobile"
    /\ extracted_mapping' =
           [cls \in DOMAIN parsed_class_map |->
               safe_join_texts(parsed_class_map[cls], " | ", max_text_length)]
    /\ xpc' = "returned"
    /\ UNCHANGED <<extractor, html_source_text, parsed_class_map, max_text_length, not_extract_vars>>

NextExtract ==
    \/ ExtractTextGroupedByCssClass
    \/ BuildClassTextMap
    \/ ExtractClassAggregates
    \/ ParseClassesFromPage
    \/ SafeJoinTexts

SpecExtract == InitExtract /\ [][NextExtract]_vars

----------------------------------------------------------------------------
(* Detail links and the pages the sites serve *)

Scrapers == {"Amobile", "Wooriwonmobile", "Insmobile"}

\* the identity columns each writer puts first
base_column_names(s) ==
    IF s = "Amobile"
    THEN <<"carrier_label", "plan_identifier", "detail_page_uniform_resource_locator">>
    ELSE IF s = "Wooriwonmobile"
    THEN <<"plan_identifier", "network_path_segment", "detail_page_address">>
    ELSE <<"url">>

\* the i-th link row collected from the list page: rows are distinct, and
\* an Amobile href without digits has an empty plan_identifier
link_row(s, i) ==
    IF s = "Amobile"
    THEN [carrier_label |-> IF i % 2 = 1 THEN "KT" ELSE "LGU+",
          plan_identifier |-> IF i = 2 THEN "" ELSE ToString(40 + i),
          absolute_uniform_resource_locator |->
              IF i = 2 THEN "https://www.amobile.co.kr/plan/new"
              ELSE "https://www.amobile.co.kr/plan/" \o ToString(40 + i)]
    ELSE IF s = "Wooriwonmobile"
    THEN [plan_identifier |-> "PD" \o ToString(i),
          network_path_segment |-> IF i % 2 = 1 THEN "01/01" ELSE "01/02",
          detail_page_address |->
              "https://www.wooriwonmobile.com/rate-plan/detail/"
                  \o (IF i % 2 = 1 THEN "01/01" ELSE "01/02") \o "/PD" \o ToString(i)]
    ELSE "https://www.insmobile.co.kr/rate_view.do?seq=" \o ToString(i)

\* class names that occur on the detail pages of a site; a site is free to
\* use a class that is spelled like one of the writer's identity columns
DetailPageClassNames(s) ==
    ClassNames \cup {IF s = "Insmobile" THEN "url" ELSE "plan_identifier"}

\* a detail page: one element with text for each class name the page uses,
\* in document order
DetailPage(s, used_class_names) ==
    LET order == <<"a", "b", IF s = "Insmobile" THEN "url" ELSE "plan_identifier">>
        Used(class_name) == class_name \in used_class_names
        used == SelectSeq(order, Used)
    IN  [i \in 1..Len(used) |-> [class |-> <<used[i]>>, strings |-> <<"x">>]]

DetailPages(s) ==
    {DetailPage(s, used_class_names) : used_class_names \in SUBSET DetailPageClassNames(s)}

\* what the extractor of each script returns over the pages its site can serve
AmobileClassMaps ==
    {extract_text_grouped_by_css_class(html) : html \in DetailPages("Amobile")}
WooriwonClassMaps ==
    {extract_text_grouped_by_css_class(html) : html \in DetailPages("Wooriwonmobile")}
InsmobileClassMaps ==
    {build_class_text_map(parsed_html) : parsed_html \in DetailPages("Insmobile")}

FetchFailed == [ok |-> FALSE, class_map |-> EmptyDict]
FetchSucceeded(class_map) == [ok |-> TRUE, class_map |-> class_map]

----------------------------------------------------------------------------
(* Amobile / Wooriwonmobile: crawl_detail_pages_and_collect_class_texts *)

\* Counter.get(class_name, 0)
support_count(counter, class_name) == DictGet(counter, class_name, 0)

\* the counter if it were rebuilt from the current page alone
increment_support_counter_reset(counter, class_map) ==
    [class_name \in DOMAIN class_map |-> 1]

\* the counter if the loop assigned 1 instead of adding 1
increment_support_counter_assign(counter, class_map) ==
    [class_name \in (DOMAIN counter) \cup (DOMAIN class_map) |->
        IF class_name \in DOMAIN class_map THEN 1 ELSE counter[class_name]]

\* for class_name in mapping.keys(): class_name_support_counter[class_name] += 1
increment_support_counter(counter, class_map) ==
    [class_name \in (DOMAIN counter) \cup (DOMAIN class_map) |->
        IF class_name \in DOMAIN class_map
        THEN support_count(counter, class_name) + 1
        ELSE counter[class_name]]

\* record_for_current_page = {identity...}; record.update(mapping)
amobile_record_for_current_page(link, position, class_map) ==
    DictUpdate(
        [carrier_label |-> link.carrier_label,
         plan_identifier |-> IF link.plan_identifier # ""
                             THEN link.plan_identifier ELSE ToString(position),
         detail_page_uniform_resource_locator |-> link.absolute_uniform_resource_locator],
        class_map)

wooriwon_record_for_current_page(single_row, class_map) ==
    DictUpdate(
        [plan_identifier |-> single_row.plan_identifier,
         network_path_segment |-> single_row.network_path_segment,
         detail_page_address |-> single_row.detail_page_address],
        class_map)

\* detail_page_records if a page that extracted nothing were left out
append_record_unless_bare(records, record) ==
    IF \A key \in DOMAIN record :
           key \in {"carrier_label", "plan_identifier", "network_path_segment",
                     "detail_page_uniform_resource_locator", "detail_page_address"}
    THEN records
    ELSE Append(records, record)

\* detail_page_records with the new record put first instead of last
append_record_in_front(records, record) == <<record>> \o records

\* detail_page_records.append(record_for_current_page)
append_record(records, record) == Append(records, record)

\* one iteration of Amobile's loop: fetch_detail_html_with_fallback returned
\* None (print, sleep, continue) or the page's HTML, which is extracted
AmobileCrawlDetailPage ==
    /\ scraper = "Amobile"
    /\ pc = "crawl"
    /\ index_value <= Len(collected_link_rows)
    /\ \/ /\ fetch_results' = Append(fetch_results, FetchFailed)
          /\ UNCHANGED <<detail_page_records, class_name_support_counter>>
       \/ \E class_map \in AmobileClassMaps :
                /\ fetch_results' = Append(fetch_results, FetchSucceeded(class_map))
                /\ class_name_support_counter' =
                       increment_support_counter(class_name_support_counter, class_map)
                /\ detail_page_records' =
                       append_record(detail_page_records,
                              amobile_record_for_current_page(
                                  collected_link_rows[index_value], index_value, class_map))
    /\ index_value' = index_value + 1
    /\ UNCHANGED <<scraper, minimum_class_support_threshold, collected_link_rows, pc,
                   page_class_maps, final_header_column_names, csv_rows, not_crawl_vars>>

\* one iteration of Wooriwonmobile's loop: goto / wait_for_load_state raised
\* (print, close, continue) or the page's HTML was read
WooriwonCrawlDetailPage ==
    /\ scraper = "Wooriwonmobile"
    /\ pc = "crawl"
    /\ index_value <= Len(collected_link_rows)
    /\ \/ /\ fetch_results' = Append(fetch_results, FetchFailed)
          /\ UNCHANGED <<detail_page_records, class_name_support_counter>>
       \/ \E class_map \in WooriwonClassMaps :
                /\ fetch_results' = Append(fetch_results, FetchSucceeded(class_map))
                /\ class_name_support_counter' =
                       increment_support_counter(class_name_support_counter, class_map)
                /\ detail_page_records' =
                       append_record(detail_page_records,
                              wooriwon_record_for_current_page(
                                  collected_link_rows[index_value], class_map))
    /\ index_value' = index_value + 1
    /\ UNCHANGED <<scraper, minimum_class_support_threshold, collected_link_rows, pc,
                   page_class_maps, final_header_column_names, csv_rows, not_crawl_vars>>

----------------------------------------------------------------------------
(* Amobile / Wooriwonmobile: write_records_to_comma_separated_values_file *)

all_class_column_candidates(records, base) ==
    UNION {DOMAIN records[i] : i \in 1..Len(records)} \ Range(base)

\* the filter with the comparison turned round: keeps the rare classes
filtered_class_column_names_inverted(records, counter, base, threshold) ==
    IF threshold # 0 /\ threshold > 1
    THEN {class_name \in all_class_column_candidates(records, base) :
             support_count(counter, class_name) < threshold}
    ELSE all_class_column_candidates(records, base)

\* the threshold filter, before sorting
filtered_class_column_names(records, counter, base, threshold) ==
    IF threshold # 0 /\ threshold > 1
    THEN {class_name \in all_class_column_candidates(records, base) :
             support_count(counter, class_name) >= threshold}
    ELSE all_class_column_candidates(records, base)

\* the sort key without the support count: names only
column_sort_key_less_name_only(counter, c1, c2) == StrLess(c1, c2)

\* key=lambda class_name: (-support, class_name), compared as Python tuples
column_sort_key_less(counter, c1, c2) ==
    LET k1 == -support_count(counter, c1)
        k2 == -support_count(counter, c2)
    IN  k1 < k2 \/ (k1 = k2 /\ StrLess(c1, c2))

\* list.sort(key=...): the name at position i has exactly i-1 names with a
\* smaller key (the keys of distinct names differ)
sorted_class_column_names(names, counter) ==
    [i \in 1..Cardinality(names) |->
        CHOOSE c \in names :
            Cardinality({other \in names : column_sort_key_less(counter, other, c)}) = i - 1]

final_header(records, counter, base, threshold) ==
    base \o sorted_class_column_names(
                filtered_class_column_names(records, counter, base, threshold), counter)

\* the row if the writer left out the columns a record lacks
row_values_present_only(single_record, header) ==
    LET Present(column_name) == column_name \in DOMAIN single_record
        present == SelectSeq(header, Present)
    IN  [i \in 1..Len(present) |-> single_record[present[i]]]

\* [single_record.get(column_name, "") for column_name in header]
row_values(single_record, header) ==
    [i \in 1..Len(header) |-> DictGet(single_record, header[i], "")]

WriteRecordsToCommaSeparatedValuesFile ==
    /\ scraper \in {"Amobile", "Wooriwonmobile"}
    /\ pc = "crawl"
    /\ index_value > Len(collected_link_rows)
    /\ LET header == final_header(detail_page_records, class_name_support_counter,
                                  base_column_names(scraper),
                                  minimum_class_support_threshold)
       IN  /\ final_header_column_names' = header
           /\ csv_rows' = [i \in 1..Len(detail_page_records) |->
                              row_values(detail_page_records[i], header)]
    /\ pc' = "done"
    /\ UNCHANGED <<scraper, minimum_class_support_threshold, collected_link_rows,
                   index_value, fetch_results, detail_page_records,
                   class_name_support_counter, page_class_maps, not_crawl_vars>>

----------------------------------------------------------------------------
(* Insmobile: main's detail loop and save_pages_as_class_columns_csv *)

\* one iteration: fetch_and_parse_html_with_session raises (nothing in main
\* catches it, the script ends) or the class map of the page is appended
InsmobileFetchDetailPage ==
    /\ scraper = "Insmobile"
    /\ pc = "crawl"
    /\ index_value <= Len(collected_link_rows)
    /\ \/ /\ fetch_results' = Append(fetch_results, FetchFailed)
          /\ pc' = "aborted"
          /\ UNCHANGED <<page_class_maps, index_value>>
       \/ \E class_map \in InsmobileClassMaps :
                /\ fetch_results' = Append(fetch_results, FetchSucceeded(class_map))
                /\ page_class_maps' =
                       Append(page_class_maps,
                              <<collected_link_rows[index_value], class_map>>)
                /\ index_value' = index_value + 1
                /\ pc' = pc
    /\ UNCHANGED <<scraper, minimum_class_support_threshold, collected_link_rows,
                   detail_page_records, class_name_support_counter,
                   final_header_column_names, csv_rows, not_crawl_vars>>

all_classes(maps) == UNION {DOMAIN maps[i][2] : i \in 1..Len(maps)}

\* sorted(names) on a set of str
sorted(names) ==
    [i \in 1..Cardinality(names) |->
        CHOOSE c \in names : Cardinality({other \in names : StrLess(other, c)}) = i - 1]

\* fieldnames = ["url"] + sorted(all_classes)
fieldnames(maps) == <<"url">> \o sorted(all_classes(maps))

\* row = {"url": page_url}; row[class_name] = class_map.get(class_name, "")
insmobile_row(page_url, class_map, classes) ==
    DictUpdate([url |-> page_url],
               [class_name \in classes |-> DictGet(class_map, class_name, "")])

SavePagesAsClassColumnsCsv ==
    /\ scraper = "Insmobile"
    /\ pc = "crawl"
    /\ index_value > Len(collected_link_rows)
    /\ final_header_column_names' = fieldnames(page_class_maps)
    /\ csv_rows' = [i \in 1..Len(page_class_maps) |->
                       row_values(insmobile_row(page_class_maps[i][1],
                                                page_class_maps[i][2],
                                                all_classes(page_class_maps)),
                                  fieldnames(page_class_maps))]
    /\ pc' = "done"
    /\ UNCHANGED <<scraper, minimum_class_support_threshold, collected_link_rows,
                   index_value, fetch_results, detail_page_records,
                   class_name_support_counter, page_class_maps, not_crawl_vars>>

----------------------------------------------------------------------------
(* One run of a scraper's main() after the links were collected *)

Init ==
    /\ scraper \in Scrapers
    /\ minimum_class_support_threshold \in
           (IF scraper = "Insmobile" THEN {0} ELSE Thresholds)
    /\ \E n \in 0..MaxLinks :
           collected_link_rows = [i \in 1..n |-> link_row(scraper, i)]
    /\ index_value = 1
    /\ pc = "crawl"
    /\ fetch_results = <<>>
    /\ detail_page_records = <<>>
    /\ class_name_support_counter = EmptyDict
    /\ page_class_maps = <<>>
    /\ final_header_column_names = <<>>
    /\ csv_rows = <<>>
    /\ ExtractIdle
    /\ CountIdle
    /\ SiwolIdle
    /\ PlaywrightIdle
    /\ WorkersIdle
    /\ FallbackIdle
    /\ ModalIdle
    /\ RetryIdle
    /\ PaginationIdle
    /\ CollectorIdle
    /\ PopupIdle

Next ==
    \/ AmobileCrawlDetailPage
    \/ WooriwonCrawlDetailPage
    \/ WriteRecordsToCommaSeparatedValuesFile
    \/ InsmobileFetchDetailPage
    \/ SavePagesAsClassColumnsCsv

Spec == Init /\ [][Next]_vars

----------------------------------------------------------------------------
(* SK_7mobile_cwl.main and LG_UMobile_Data_collector.main: the detail loop  *)
(* that counts successes and failures                                       *)

MaxUrls == 4             \* URLs collected from the lists, repeats included

Drivers == {"SK_SevenMobile", "LG_UMobile"}
DetailUrls == {"u1", "u2", "u3"}

\* seen = set(); keep the first occurrence of each URL, in order
RECURSIVE remove_repeated_urls(_, _)
remove_repeated_urls(all_urls, seen) ==
    IF all_urls = <<>> THEN <<>>
    ELSE IF all_urls[1] \in seen
         THEN remove_repeated_urls(Tail(all_urls), seen)
         ELSE <<all_urls[1]>> \o remove_repeated_urls(Tail(all_urls), seen \cup {all_urls[1]})

\* what visiting one URL can do: the page is fetched and parsed, the GET
\* raises a requests.RequestException, the page lacks h2.title
\* (SK_7mobile_cwl only), or parsing raises another exception
UrlOutcomes(d) ==
    IF d = "SK_SevenMobile" THEN {"ok", "http", "blocked", "parse"}
    ELSE {"ok", "http", "parse"}

\* the failed list if each failure replaced the one before
record_failure_overwrite(failures, url, why) == <<(<<url, why>>)>>

\* failed.append((url, why))
record_failure(failures, url, why) == Append(failures, <<url, why>>)

InitCount ==
    /\ driver \in Drivers
    /\ all_detail_urls \in SeqsOf(DetailUrls, 0, MaxUrls)
    /\ uniq_urls = <<>>
    /\ input_rows = <<>>
    /\ url_index = 0
    /\ rows = <<>>
    /\ failed = <<>>
    /\ out_csv_rows = <<>>
    /\ total_ok = 0
    /\ total_bad = 0
    /\ outcomes = <<>>
    /\ dpc = "load"
    /\ CrawlIdle
    /\ ExtractIdle
    /\ SiwolIdle
    /\ PlaywrightIdle
    /\ WorkersIdle
    /\ FallbackIdle
    /\ ModalIdle
    /\ RetryIdle
    /\ PaginationIdle
    /\ CollectorIdle
    /\ PopupIdle

\* SK_7mobile_cwl.main: the dedup loop, rows = [], failed = []
SK7RemoveRepeatedUrls ==
    /\ driver = "SK_SevenMobile"
    /\ dpc = "load"
    /\ uniq_urls' = remove_repeated_urls(all_detail_urls, {})
    /\ url_index' = 1
    /\ dpc' = "loop"
    /\ UNCHANGED <<driver, all_detail_urls, input_rows, rows, failed, out_csv_rows,
                   total_ok, total_bad, outcomes, not_count_vars>>

\* one pass of SK_7mobile_cwl.main's detail loop: try / except / finally
SK7CollectDetail ==
    /\ driver = "SK_SevenMobile"
    /\ dpc = "loop"
    /\ url_index <= Len(uniq_urls)
    /\ \E outcome \in UrlOutcomes(driver) :
          /\ outcomes' = Append(outcomes, outcome)
          /\ IF outcome = "ok"
             THEN /\ rows' = Append(rows, uniq_urls[url_index])
                  /\ UNCHANGED failed
             ELSE /\ failed' = record_failure(failed, uniq_urls[url_index],
                                              IF outcome = "http" THEN "HTTP" ELSE "PARSE")
                  /\ UNCHANGED rows
    /\ url_index' = url_index + 1
    /\ UNCHANGED <<driver, all_detail_urls, uniq_urls, input_rows, out_csv_rows,
                   total_ok, total_bad, dpc, not_count_vars>>

\* SK_7mobile_cwl.main after the loop: write_csv, FAILED_TXT, the summary
SK7Summary ==
    /\ driver = "SK_SevenMobile"
    /\ dpc = "loop"
    /\ url_index > Len(uniq_urls)
    /\ dpc' = "done"
    /\ UNCHANGED <<driver, all_detail_urls, uniq_urls, input_rows, url_index, rows,
                   failed, out_csv_rows, total_ok, total_bad, outcomes, not_count_vars>>

\* LG_UMobile_Data_collector.main: load_input_urls, total_ok = total_bad = 0
LGLoadInputUrls ==
    /\ driver = "LG_UMobile"
    /\ dpc = "load"
    /\ input_rows' = remove_repeated_urls(all_detail_urls, {})
    /\ url_index' = 1
    /\ total_ok' = 0
    /\ total_bad' = 0
    /\ dpc' = "loop"
    /\ UNCHANGED <<driver, all_detail_urls, uniq_urls, rows, failed, out_csv_rows,
                   outcomes, not_count_vars>>

\* one pass of LG_UMobile_Data_collector.main's loop
LGCollectDetail ==
    /\ driver = "LG_UMobile"
    /\ dpc = "loop"
    /\ url_index <= Len(input_rows)
    /\ \E outcome \in UrlOutcomes(driver) :
          /\ outcomes' = Append(outcomes, outcome)
          /\ IF outcome = "ok"
             THEN /\ out_csv_rows' = Append(out_csv_rows, input_rows[url_index])
                  /\ total_ok' = total_ok + 1
                  /\ UNCHANGED total_bad
             ELSE /\ total_bad' = total_bad + 1
                  /\ UNCHANGED <<out_csv_rows, total_ok>>
    /\ url_index' = url_index + 1
    /\ UNCHANGED <<driver, all_detail_urls, uniq_urls, input_rows, rows, failed,
                   dpc, not_count_vars>>

\* LG_UMobile_Data_collector.main after the loop: the closing print
LGSummary ==
    /\ driver = "LG_UMobile"
    /\ dpc = "loop"
    /\ url_index > Len(input_rows)
    /\ dpc' = "done"
    /\ UNCHANGED <<driver, all_detail_urls, uniq_urls, input_rows, url_index, rows,
                   failed, out_csv_rows, total_ok, total_bad, outcomes, not_count_vars>>

NextCount ==
    \/ SK7RemoveRepeatedUrls
    \/ SK7CollectDetail
    \/ SK7Summary
    \/ LGLoadInputUrls
    \/ LGCollectDetail
    \/ LGSummary

SpecCount == InitCount /\ [][NextCount]_vars

----------------------------------------------------------------------------
(* siwol_scraper.main: steps 3 to 5 *)

MaxSiwolUrls == 2        \* detail URLs of one siwol run

\* the values of the dicts kept in per_page_class_texts: a str ("__url__",
\* "__error__") or a list of str (a class of the page)
StrValue(text) == [is_list |-> FALSE, text |-> text, texts |-> <<>>]
ListValue(texts) == [is_list |-> TRUE, text |-> "", texts |-> texts]

\* a dict with its keys in insertion order
PyDict(keys, values) == [keys |-> keys, values |-> values]

\* class names on siwol's detail pages; a page is free to use a class that
\* is spelled like a column or a marker of the script
SiwolPageClassNames == {"a", "url", "__error__"}

SiwolDetailPage(used_class_names) ==
    LET order == <<"a", "url", "__error__">>
        Used(class_name) == class_name \in used_class_names
        used == SelectSeq(order, Used)
    IN  [i \in 1..Len(used) |-> [class |-> <<used[i]>>, strings |-> <<"x">>]]

SiwolDetailPages ==
    {SiwolDetailPage(used_class_names) : used_class_names \in SUBSET SiwolPageClassNames}

siwol_url(i) == "https://siwolmobile.com/rate_view.do?seq=" \o ToString(i)

\* the keys of parse_classes_from_page's dict in the order setdefault
\* created them
parsed_class_order(html) ==
    LET appends == Flatten([i \in 1..Len(html) |-> parse_element_contributions(html[i])])
    IN  Dedup([k \in 1..Len(appends) |-> appends[k].key])

\* except: class_map = {"__url__": url, "__error__": str(e)}
failed_class_map(url, error) ==
    PyDict(<<"__url__", "__error__">>,
           [key \in {"__url__", "__error__"} |->
               StrValue(IF key = "__url__" THEN url ELSE error)])

\* else: class_map = parse_classes_from_page(html); class_map["__url__"] = url
fetched_class_map(url, html) ==
    LET parsed == parse_classes_from_page(html)
        order == parsed_class_order(html)
    IN  PyDict(IF "__url__" \in Range(order) THEN order ELSE Append(order, "__url__"),
               [key \in (DOMAIN parsed) \cup {"__url__"} |->
                   IF key = "__url__" THEN StrValue(url) ELSE ListValue(parsed[key])])

\* c.startswith("__")
startswith_underscores(c) == Len(c) >= 2 /\ SubSeq(c, 1, 2) = "__"

\* row[cls] = safe_join_texts(texts) if isinstance(texts, list) else ""
wide_cell(page_dict, cls) ==
    LET texts == DictGet(page_dict.values, cls, ListValue(<<>>))
    IN  IF texts.is_list
        THEN safe_join_texts(texts.texts, " | ", safe_join_texts_max_len)
        ELSE ""

\* row = {"url": class_map.get("__url__", "")}; for cls in all_classes: row[cls] = ...
wide_row(page_dict, class_columns) ==
    [column \in {"url"} \cup Range(class_columns) |->
        IF column \in Range(class_columns)
        THEN wide_cell(page_dict, column)
        ELSE DictGet(page_dict.values, "__url__", StrValue("")).text]

\* how pandas writes a cell that holds a str or a list
cell_text(value) ==
    IF value.is_list
    THEN IF value.texts = <<>> THEN "[]" ELSE "['" \o join("', '", value.texts) \o "']"
    ELSE value.text

\* the long records of one page
long_records_of(page_dict) ==
    LET url == DictGet(page_dict.values, "__url__", StrValue("")).text
        Listed(cls) ==
            /\ ~startswith_underscores(cls)
            /\ IF page_dict.values[cls].is_list
               THEN page_dict.values[cls].texts # <<>>
               ELSE page_dict.values[cls].text # ""
        listed == SelectSeq(page_dict.keys, Listed)
        TextsOf(cls) ==
            IF page_dict.values[cls].is_list
            THEN page_dict.values[cls].texts
            ELSE <<page_dict.values[cls].text>>
    IN  IF "__error__" \in DOMAIN page_dict.values
        THEN <<[url |-> url, class_name |-> "__error__",
                text_joined |-> cell_text(page_dict.values["__error__"]), count |-> 0]>>
        ELSE [k \in 1..Len(listed) |->
                 [url |-> url, class_name |-> listed[k],
                  text_joined |-> safe_join_texts(TextsOf(listed[k]), " | ",
                                                  safe_join_texts_max_len),
                  count |-> Len(TextsOf(listed[k]))]]

InitSiwol ==
    /\ \E n \in 0..MaxSiwolUrls : siwol_detail_urls = [i \in 1..n |-> siwol_url(i)]
    /\ siwol_index = 1
    /\ per_page_class_texts = <<>>
    /\ observed_classes = {}
    /\ wide_rows = <<>>
    /\ long_records = <<>>
    /\ spc = "pages"
    /\ CrawlIdle
    /\ ExtractIdle
    /\ CountIdle
    /\ PlaywrightIdle
    /\ WorkersIdle
    /\ FallbackIdle
    /\ ModalIdle
    /\ RetryIdle
    /\ PaginationIdle
    /\ CollectorIdle
    /\ PopupIdle

\* step 3, one URL: fetch or parse raised, or the page was parsed
SiwolParseDetailPage ==
    /\ spc = "pages"
    /\ siwol_index <= Len(siwol_detail_urls)
    /\ \/ /\ per_page_class_texts' =
                 Append(per_page_class_texts,
                        failed_class_map(siwol_detail_urls[siwol_index], "HTTPError"))
          /\ UNCHANGED observed_classes
       \/ \E html \in SiwolDetailPages :
             LET page_dict == fetched_class_map(siwol_detail_urls[siwol_index], html)
             IN  /\ per_page_class_texts' = Append(per_page_class_texts, page_dict)
                 /\ observed_classes' = observed_classes \cup DOMAIN page_dict.values
    /\ siwol_index' = siwol_index + 1
    /\ UNCHANGED <<siwol_detail_urls, wide_rows, long_records, spc, not_siwol_vars>>

\* step 3 is over
SiwolPagesDone ==
    /\ spc = "pages"
    /\ siwol_index > Len(siwol_detail_urls)
    /\ spc' = "wide"
    /\ UNCHANGED <<siwol_detail_urls, siwol_index, per_page_class_texts,
                   observed_classes, wide_rows, long_records, not_siwol_vars>>

\* step 4: the wide table
SiwolWriteWide ==
    /\ spc = "wide"
    /\ LET class_columns ==
               sorted({c \in observed_classes : ~startswith_underscores(c)})
       IN  wide_rows' = [k \in 1..Len(per_page_class_texts) |->
                            wide_row(per_page_class_texts[k], class_columns)]
    /\ spc' = "long"
    /\ UNCHANGED <<siwol_detail_urls, siwol_index, per_page_class_texts,
                   observed_classes, long_records, not_siwol_vars>>

\* step 5: the long table
SiwolWriteLong ==
    /\ spc = "long"
    /\ long_records' = Flatten([k \in 1..Len(per_page_class_texts) |->
                                   long_records_of(per_page_class_texts[k])])
    /\ spc' = "done"
    /\ UNCHANGED <<siwol_detail_urls, siwol_index, per_page_class_texts,
                   observed_classes, wide_rows, not_siwol_vars>>

NextSiwol ==
    \/ SiwolParseDetailPage
    \/ SiwolPagesDone
    \/ SiwolWriteWide
    \/ SiwolWriteLong

SpecSiwol == InitSiwol /\ [][NextSiwol]_vars

----------------------------------------------------------------------------
(* crawler_playwright: fetch_page tasks under a Semaphore, and main's loop *)

MaxTasks == 3            \* URLs, one fetch_page task each
MaxConcurrency == 2      \* largest --concurrency tried

\* build_url(seq, upPpnCd, devKdCd)
build_url(seq, upPpnCd, devKdCd) ==
    "https://www.uplusumobile.com/product/pric/pricDetail?seq=" \o ToString(seq)
        \o "&upPpnCd=" \o upPpnCd \o "&devKdCd=" \o devKdCd

\* the i-th entry of urls: (seq, up, dev, url)
url_entry(i) ==
    [seq |-> i, upPpnCd |-> "U001", devKdCd |-> "001", url |-> build_url(i, "U001", "001")]

Tasks == 1..Len(urls)

InitPlaywright ==
    /\ \E n \in 1..MaxTasks : urls = [i \in 1..n |-> url_entry(i)]
    /\ concurrency \in 1..MaxConcurrency
    /\ semaphore = concurrency
    /\ task_pc = [t \in Tasks |-> "start"]
    /\ browser_open = [t \in Tasks |-> FALSE]
    /\ task_result = [t \in Tasks |-> "pending"]
    /\ completed = <<>>
    /\ written_rows = <<>>
    /\ awaited = 0
    /\ mpc = "running"
    /\ CrawlIdle
    /\ ExtractIdle
    /\ CountIdle
    /\ SiwolIdle
    /\ WorkersIdle
    /\ FallbackIdle
    /\ ModalIdle
    /\ RetryIdle
    /\ PaginationIdle
    /\ CollectorIdle
    /\ PopupIdle

\* async with semaphore: enter
Acquire(t) ==
    /\ mpc = "running"
    /\ task_pc[t] = "start"
    /\ semaphore > 0
    /\ semaphore' = semaphore - 1
    /\ task_pc' = [task_pc EXCEPT ![t] = "acquired"]
    /\ UNCHANGED <<urls, concurrency, browser_open, task_result, completed,
                   written_rows, awaited, mpc, not_playwright_vars>>

\* browser = await playwright.chromium.launch(headless=True): the browser
\* opens, or launch raises and the exception leaves the async with
Launch(t) ==
    /\ mpc = "running"
    /\ task_pc[t] = "acquired"
    /\ \/ /\ browser_open' = [browser_open EXCEPT ![t] = TRUE]
          /\ task_pc' = [task_pc EXCEPT ![t] = "launched"]
          /\ UNCHANGED <<semaphore, task_result, completed>>
       \/ /\ semaphore' = semaphore + 1
          /\ task_pc' = [task_pc EXCEPT ![t] = "finished"]
          /\ task_result' = [task_result EXCEPT ![t] = "raised"]
          /\ completed' = Append(completed, t)
          /\ UNCHANGED browser_open
    /\ UNCHANGED <<urls, concurrency, written_rows, awaited, mpc, not_playwright_vars>>

\* page = await browser.new_page(), before the try: a page, or an
\* exception that leaves the async with past the try/finally
NewPage(t) ==
    /\ mpc = "running"
    /\ task_pc[t] = "launched"
    /\ \/ /\ task_pc' = [task_pc EXCEPT ![t] = "page"]
          /\ UNCHANGED <<semaphore, task_result, completed>>
       \/ /\ semaphore' = semaphore + 1
          /\ task_pc' = [task_pc EXCEPT ![t] = "finished"]
          /\ task_result' = [task_result EXCEPT ![t] = "raised"]
          /\ completed' = Append(completed, t)
    /\ UNCHANGED <<urls, concurrency, browser_open, written_rows, awaited,
                   mpc, not_playwright_vars>>

\* the try block: goto, the ERROR_PATH test, content, parse_html; the
\* value to return is (final_url, data) or None
Goto(t) ==
    /\ mpc = "running"
    /\ task_pc[t] = "page"
    /\ \E outcome \in {"data", "error_page", "exception"} :
          task_result' = [task_result EXCEPT ![t] = IF outcome = "data" THEN "data" ELSE "none"]
    /\ task_pc' = [task_pc EXCEPT ![t] = "closing"]
    /\ UNCHANGED <<urls, concurrency, semaphore, browser_open, completed,
                   written_rows, awaited, mpc, not_playwright_vars>>

\* finally: await browser.close(); then the async with is left
Close(t) ==
    /\ mpc = "running"
    /\ task_pc[t] = "closing"
    /\ browser_open' = [browser_open EXCEPT ![t] = FALSE]
    /\ semaphore' = semaphore + 1
    /\ task_pc' = [task_pc EXCEPT ![t] = "finished"]
    /\ completed' = Append(completed, t)
    /\ UNCHANGED <<urls, concurrency, task_result, written_rows, awaited,
                   mpc, not_playwright_vars>>

\* one pass of main's for loop: the next (seq, up, dev, url) of urls is
\* zipped with the next task to complete; an exception of the task is
\* raised by the await and leaves async_playwright(), which ends every
\* browser
MainAwait ==
    /\ mpc = "running"
    /\ awaited < Len(completed)
    /\ LET position == awaited + 1
           task == completed[position]
       IN  IF task_result[task] = "raised"
           THEN /\ mpc' = "raised"
                /\ browser_open' = [t \in Tasks |-> FALSE]
                /\ UNCHANGED <<written_rows, awaited>>
           ELSE /\ awaited' = position
                /\ written_rows' =
                       IF task_result[task] = "data"
                       THEN Append(written_rows,
                                   [seq |-> urls[position].seq,
                                    upPpnCd |-> urls[position].upPpnCd,
                                    devKdCd |-> urls[position].devKdCd,
                                    url |-> urls[task].url])
                       ELSE written_rows
                /\ UNCHANGED <<mpc, browser_open>>
    /\ UNCHANGED <<urls, concurrency, semaphore, task_pc, task_result, completed,
                   not_playwright_vars>>

\* the loop is over: f.close(), "Done"
MainDone ==
    /\ mpc = "running"
    /\ awaited = Len(urls)
    /\ mpc' = "done"
    /\ UNCHANGED <<urls, concurrency, semaphore, task_pc, browser_open, task_result,
                   completed, written_rows, awaited, not_playwright_vars>>

NextPlaywright ==
    \/ \E t \in Tasks : Acquire(t)
    \/ \E t \in Tasks : Launch(t)
    \/ \E t \in Tasks : NewPage(t)
    \/ \E t \in Tasks : Goto(t)
    \/ \E t \in Tasks : Close(t)
    \/ MainAwait
    \/ MainDone

SpecPlaywright == InitPlaywright /\ [][NextPlaywright]_vars

----------------------------------------------------------------------------
(* test.py: the worker pool, its RateLimiter and the queue of main          *)
(*                                                                          *)
(* Workers are asyncio tasks: a worker runs without interruption from one   *)
(* await that suspends it to the next, so every action below is the code    *)
(* between two suspensions, and the clock moves only between actions.       *)
(* The clock counts tenths of a second, a rate counts 1/10000 requests per  *)
(* second: 50000 is the default --rate 5.0, 10 is the 0.001 of line 156.    *)

MaxItems == 2            \* entries main puts on the queue

\* time.monotonic() when main starts
StartClocks == {0, 2}

\* distances from RateLimiter._last at which the clock is let tick once more
IdleTicks == {0, 1}

\* values of --rate: 0, 0.0005 and 5.0 (the default)
Rates == {0, 5, 50000}

\* values of --concurrency
WorkerCounts == {1, 2}

\* how late asyncio.sleep may hand control back, in ticks
Lateness == {0, 1}

\* RateLimiter.__init__: 1.0 / max(rate_per_sec, 0.001), in clock ticks
min_interval(rate_value) ==
    (10 * 10000) \div (IF rate_value > 10 THEN rate_value ELSE 10)

\* RateLimiter.wait with one tick less to wait
wait_for_one_tick_short(interval, now_value, last_value) ==
    interval - (now_value - last_value) - 1

\* RateLimiter.wait: wait_for = self.min_interval - (now - self._last)
wait_for(interval, now_value, last_value) ==
    interval - (now_value - last_value)

Workers == 1..worker_count

\* the None that main puts on the queue for each worker
NONE == 0

InitWorkers ==
    /\ rate_per_sec \in Rates
    /\ worker_count \in WorkerCounts
    /\ clock \in StartClocks
    /\ \E n \in 0..MaxItems : work_queue = [i \in 1..n |-> i]
    /\ unfinished_tasks = Len(work_queue)
    /\ worker_pc = [w \in Workers |-> "get"]
    /\ worker_item = [w \in Workers |-> 0]
    /\ lock_locked = FALSE
    /\ lock_waiters = <<>>
    /\ lock_woken = {}
    /\ limiter_last = 0
    /\ wake_at = [w \in Workers |-> 0]
    /\ wait_returns = <<>>
    /\ request_log = <<>>
    /\ failed_fetches = {}
    /\ plan_rows = <<>>
    /\ tpc = "join"
    /\ fetched = <<>>
    /\ taken_items = <<>>
    /\ task_done_calls = [entry \in {NONE} \cup {work_queue[i] : i \in 1..Len(work_queue)} |-> 0]
    /\ running = 0
    /\ CrawlIdle
    /\ ExtractIdle
    /\ CountIdle
    /\ SiwolIdle
    /\ PlaywrightIdle
    /\ FallbackIdle
    /\ ModalIdle
    /\ RetryIdle
    /\ PaginationIdle
    /\ CollectorIdle
    /\ PopupIdle

\* time.monotonic() moves on while the tasks are suspended
TimePasses ==
    /\ tpc \in {"join", "gather"}
    /\ clock - limiter_last \in IdleTicks
    /\ clock' = clock + 1
    /\ UNCHANGED <<rate_per_sec, worker_count, work_queue, unfinished_tasks,
                   worker_pc, worker_item, lock_locked, lock_waiters, lock_woken,
                   limiter_last, wake_at, wait_returns, request_log,
                   failed_fetches, plan_rows, tpc>>
    /\ UNCHANGED <<fetched, taken_items, task_done_calls, running>>
    /\ UNCHANGED not_worker_vars

\* worker: item = await queue.get(); None ends the worker
QueueGet(w) ==
    /\ worker_pc[w] = "get"
    /\ running = 0
    /\ work_queue # <<>>
    /\ work_queue' = Tail(work_queue)
    /\ taken_items' = Append(taken_items, Head(work_queue))
    /\ IF Head(work_queue) = NONE
       THEN /\ unfinished_tasks' = unfinished_tasks - 1
            /\ task_done_calls' = [task_done_calls EXCEPT ![NONE] = @ + 1]
            /\ worker_pc' = [worker_pc EXCEPT ![w] = "returned"]
            /\ UNCHANGED worker_item
       ELSE /\ worker_item' = [worker_item EXCEPT ![w] = Head(work_queue)]
            /\ worker_pc' = [worker_pc EXCEPT ![w] = "acquire"]
            /\ UNCHANGED <<unfinished_tasks, task_done_calls>>
    /\ UNCHANGED <<rate_per_sec, worker_count, clock, lock_locked, lock_waiters,
                   lock_woken, limiter_last, wake_at, wait_returns, request_log,
                   failed_fetches, plan_rows, tpc>>
    /\ UNCHANGED <<fetched, running>>
    /\ UNCHANGED not_worker_vars

\* RateLimiter.wait from self._last = time.monotonic() on: the lock is
\* released, which resolves the future of the oldest waiter, wait() returns
\* and the worker logs REQ and starts fetch
leave_wait(w, now_value, waiters_now, woken_now) ==
    /\ limiter_last' = now_value
    /\ lock_locked' = FALSE
    /\ lock_woken' = IF waiters_now = <<>> THEN woken_now
                     ELSE woken_now \cup {Head(waiters_now)}
    /\ wait_returns' = Append(wait_returns, now_value)
    /\ request_log' = Append(request_log, worker_item[w])
    /\ worker_pc' = [worker_pc EXCEPT ![w] = "fetch"]

\* RateLimiter.wait once the lock is taken: read the clock, then either
\* start to sleep or leave at once
wait_locked(w, waiters_now, woken_now) ==
    LET now_value == clock
        wait_for_value == wait_for(min_interval(rate_per_sec), now_value, limiter_last)
    IN  IF wait_for_value > 0
        THEN /\ lock_locked' = TRUE
             /\ lock_woken' = woken_now
             /\ wake_at' = [wake_at EXCEPT ![w] = now_value + wait_for_value]
             /\ worker_pc' = [worker_pc EXCEPT ![w] = "sleeping"]
             /\ UNCHANGED <<limiter_last, wait_returns, request_log>>
        ELSE /\ leave_wait(w, now_value, waiters_now, woken_now)
             /\ UNCHANGED wake_at

\* worker: await limiter.wait(), up to its first suspension. Lock.acquire()
\* takes a free lock that nobody waits for and goes on; otherwise the
\* worker joins the waiters.
LimiterWait(w) ==
    /\ worker_pc[w] = "acquire"
    /\ running = 0
    /\ IF ~lock_locked /\ lock_waiters = <<>>
       THEN /\ wait_locked(w, lock_waiters, lock_woken)
            /\ UNCHANGED lock_waiters
       ELSE /\ lock_waiters' = Append(lock_waiters, w)
            /\ worker_pc' = [worker_pc EXCEPT ![w] = "waiting"]
            /\ UNCHANGED <<lock_locked, lock_woken, limiter_last, wake_at,
                           wait_returns, request_log>>
    /\ UNCHANGED <<rate_per_sec, worker_count, clock, work_queue, unfinished_tasks,
                   worker_item, failed_fetches, plan_rows, tpc>>
    /\ UNCHANGED <<fetched, taken_items, task_done_calls, running>>
    /\ UNCHANGED not_worker_vars

\* a waiter whose future was resolved leaves the waiters, takes the lock
\* and runs the body of wait()
LockAcquired(w) ==
    /\ worker_pc[w] = "waiting"
    /\ running = 0
    /\ w \in lock_woken
    /\ lock_waiters' = SelectSeq(lock_waiters, LAMBDA other : other # w)
    /\ wait_locked(w, lock_waiters', lock_woken \ {w})
    /\ UNCHANGED <<rate_per_sec, worker_count, clock, work_queue, unfinished_tasks,
                   worker_item, failed_fetches, plan_rows, tpc>>
    /\ UNCHANGED <<fetched, taken_items, task_done_calls, running>>
    /\ UNCHANGED not_worker_vars

\* asyncio.sleep(wait_for) is over: not before it is due
SleepOver(w) ==
    /\ worker_pc[w] = "sleeping"
    /\ running = 0
    /\ \E late \in Lateness :
          clock' = (IF clock > wake_at[w] THEN clock ELSE wake_at[w]) + late
    /\ leave_wait(w, clock', lock_waiters, lock_woken)
    /\ UNCHANGED <<rate_per_sec, worker_count, work_queue, unfinished_tasks,
                   worker_item, lock_waiters, wake_at, failed_fetches, plan_rows, tpc>>
    /\ UNCHANGED <<fetched, taken_items, task_done_calls, running>>
    /\ UNCHANGED not_worker_vars

\* substring test of Python's `part in text`
contains(text, part) ==
    \E i \in 1..(Len(text) - Len(part) + 1) : SubSeq(text, i, i + Len(part) - 1) = part

ERROR_PATH == "/error"

\* test.py build_url(seq, upPpnCd, devKdCd) for the queued item
item_url(queued_item) == build_url(queued_item, "A001", "001")

\* where the site redirects a request for a plan it does not have
error_url(queued_item) ==
    "https://www.uplusumobile.com/error?url=" \o item_url(queued_item)

\* what fetch(session, url) can return: (0, "", url) from its except branch,
\* else the status, the body and the final URL of the response
FetchResults(queued_item) ==
    {[status |-> 0, html |-> "", final_url |-> item_url(queued_item)]}
    \cup [status : {200, 404}, html : {"", "<html>"},
          final_url : {item_url(queued_item), error_url(queued_item)}]

\* worker, line 206, with the status left out of the test
row_is_written_whatever_status(status, html) == html # ""

\* worker, line 206: if status == 200 and html
row_is_written(status, html) == status = 200 /\ html # ""

\* the worker with an await between the row and writer.writerow
suspends_also_before_writerow(step) ==
    step \in {"get", "acquire", "sleep", "fetch", "row_built"}

\* the points of worker's loop body at which it awaits: queue.get(),
\* limiter.wait() with its lock and its sleep, fetch(); from row = {...}
\* to writer.writerow(row) there is none
suspends(step) == step \in {"get", "acquire", "sleep", "fetch"}

\* queue.task_done()
task_done(w) ==
    /\ unfinished_tasks' = unfinished_tasks - 1
    /\ task_done_calls' = [task_done_calls EXCEPT ![worker_item[w]] = @ + 1]

\* worker: fetch has returned; skip an error page, build the row and parse
\* a status 200 with a body, log FAILED FETCH for anything else. The two
\* branches without a row end in queue.task_done() and go back to
\* queue.get()
FetchReturned(w) ==
    /\ worker_pc[w] = "fetch"
    /\ running = 0
    /\ \E result \in FetchResults(worker_item[w]) :
          /\ fetched' = [queued_item |-> worker_item[w], status |-> result.status,
                         html |-> result.html, final_url |-> result.final_url]
          /\ IF contains(result.final_url, ERROR_PATH)
             THEN /\ task_done(w)
                  /\ worker_pc' = [worker_pc EXCEPT ![w] = "get"]
                  /\ UNCHANGED <<failed_fetches, running>>
             ELSE IF row_is_written(result.status, result.html)
             THEN /\ worker_pc' = [worker_pc EXCEPT ![w] = "row_built"]
                  /\ running' = IF suspends("row_built") THEN 0 ELSE w
                  /\ UNCHANGED <<failed_fetches, unfinished_tasks, task_done_calls>>
             ELSE /\ failed_fetches' = failed_fetches \cup {worker_item[w]}
                  /\ task_done(w)
                  /\ worker_pc' = [worker_pc EXCEPT ![w] = "get"]
                  /\ UNCHANGED running
    /\ UNCHANGED <<rate_per_sec, worker_count, clock, work_queue, worker_item,
                   lock_locked, lock_waiters, lock_woken, limiter_last, wake_at,
                   wait_returns, request_log, tpc, plan_rows, taken_items>>
    /\ UNCHANGED not_worker_vars

\* worker: writer.writerow(row), queue.task_done(), back to queue.get()
WriterWriterow(w) ==
    /\ worker_pc[w] = "row_built"
    /\ running = IF suspends("row_built") THEN 0 ELSE w
    /\ plan_rows' = Append(plan_rows, worker_item[w])
    /\ task_done(w)
    /\ worker_pc' = [worker_pc EXCEPT ![w] = "get"]
    /\ running' = 0
    /\ UNCHANGED <<rate_per_sec, worker_count, clock, work_queue, worker_item,
                   lock_locked, lock_waiters, lock_woken, limiter_last, wake_at,
                   wait_returns, request_log, tpc, failed_fetches, fetched,
                   taken_items>>
    /\ UNCHANGED not_worker_vars

\* main with one None too few
sentinels_one_short(count) == [w \in 1..(count - 1) |-> NONE]

\* main: for _ in workers: queue.put_nowait(None)
sentinels(count) == [w \in 1..count |-> NONE]

\* main: await queue.join() is over; one None per worker goes on the queue
QueueJoined ==
    /\ tpc = "join"
    /\ running = 0
    /\ unfinished_tasks = 0
    /\ work_queue' = work_queue \o sentinels(worker_count)
    /\ unfinished_tasks' = unfinished_tasks + Len(sentinels(worker_count))
    /\ tpc' = "gather"
    /\ UNCHANGED <<rate_per_sec, worker_count, clock, worker_pc, worker_item,
                   lock_locked, lock_waiters, lock_woken, limiter_last, wake_at,
                   wait_returns, request_log, failed_fetches, plan_rows>>
    /\ UNCHANGED <<fetched, taken_items, task_done_calls, running>>
    /\ UNCHANGED not_worker_vars

\* main: asyncio.gather(*workers) is over, the file is closed
WorkersGathered ==
    /\ tpc = "gather"
    /\ running = 0
    /\ \A w \in Workers : worker_pc[w] = "returned"
    /\ tpc' = "done"
    /\ UNCHANGED <<rate_per_sec, worker_count, clock, work_queue, unfinished_tasks,
                   worker_pc, worker_item, lock_locked, lock_waiters, lock_woken,
                   limiter_last, wake_at, wait_returns, request_log,
                   failed_fetches, plan_rows>>
    /\ UNCHANGED <<fetched, taken_items, task_done_calls, running>>
    /\ UNCHANGED not_worker_vars

NextWorkers ==
    \/ TimePasses
    \/ \E w \in Workers : QueueGet(w)
    \/ \E w \in Workers : LimiterWait(w)
    \/ \E w \in Workers : LockAcquired(w)
    \/ \E w \in Workers : SleepOver(w)
    \/ \E w \in Workers : FetchReturned(w)
    \/ \E w \in Workers : WriterWriterow(w)
    \/ QueueJoined
    \/ WorkersGathered

SpecWorkers == InitWorkers /\ [][NextWorkers]_vars

\* queue lengths of the runs whose termination is explored
FairQueueLengths == {0, 1, 2}

InitWorkersFair ==
    /\ InitWorkers
    /\ Len(work_queue) \in FairQueueLengths

\* every worker number of some run
WorkerIds == UNION {1..n : n \in WorkerCounts}

\* what worker w can do next
WorkerStep(w) ==
    /\ w \in Workers
    /\ \/ QueueGet(w)
       \/ LimiterWait(w)
       \/ LockAcquired(w)
       \/ SleepOver(w)
       \/ FetchReturned(w)
       \/ WriterWriterow(w)

\* the event loop runs every task that is ready: a worker whose await is
\* over goes on, a sleep ends, fetch returns within its timeout, and main
\* goes on once queue.join() or gather() is over
SpecWorkersFair ==
    /\ InitWorkersFair
    /\ [][NextWorkers]_vars
    /\ \A w \in WorkerIds : WF_vars(WorkerStep(w))
    /\ WF_vars(QueueJoined)
    /\ WF_vars(WorkersGathered)

----------------------------------------------------------------------------
(* Amobile: fetch_detail_html_with_fallback, called once per detail link   *)
(* by the loop of crawl_detail_pages_and_collect_class_texts. Every await  *)
(* of the function is a step that either comes back or raises.             *)

\* the detail URL of the i-th link
fallback_url(i) == "https://www.amobile.co.kr/plan/" \o ToString(i)

\* what page.content() returns for the URL in the given attempt
page_content(url, attempt) ==
    "<html>" \o url \o " attempt " \o ToString(attempt) \o "</html>"

\* the function without its inner try: a failure is final
attempt_after_failure_no_retry(attempt) == 0

\* which attempt follows a failed one: the except branch of the outer try
\* starts the second attempt, the except branch of the inner try gives up (0)
attempt_after_failure(attempt) == IF attempt = 1 THEN 2 ELSE 0

InitFallback ==
    /\ \E n \in 1..MaxLinks : fallback_urls = [i \in 1..n |-> fallback_url(i)]
    /\ fallback_index = 1
    /\ fallback_pc = "new_page"
    /\ fallback_attempt = 0
    /\ page_open = FALSE
    /\ navigations = 0
    /\ attempt_outcomes = <<>>
    /\ fallback_return = "unset"
    /\ fallback_calls = <<>>
    /\ CrawlIdle
    /\ ExtractIdle
    /\ CountIdle
    /\ SiwolIdle
    /\ PlaywrightIdle
    /\ WorkersIdle
    /\ ModalIdle
    /\ RetryIdle
    /\ PaginationIdle
    /\ CollectorIdle
    /\ PopupIdle

\* an await of the current attempt raised: except Exception
attempt_failed(step) ==
    /\ attempt_outcomes' = Append(attempt_outcomes, step)
    /\ IF attempt_after_failure(fallback_attempt) = 0
       THEN /\ fallback_return' = "None"
            /\ fallback_pc' = "close"
            /\ UNCHANGED fallback_attempt
       ELSE /\ fallback_attempt' = attempt_after_failure(fallback_attempt)
            /\ fallback_pc' = "goto"
            /\ UNCHANGED fallback_return

\* page = await playwright_browser_context.new_page(); an exception here
\* leaves the function and the loop
FallbackNewPage ==
    /\ fallback_pc = "new_page"
    /\ \/ /\ page_open' = TRUE
          /\ fallback_attempt' = 1
          /\ fallback_pc' = "goto"
       \/ /\ fallback_pc' = "raised"
          /\ UNCHANGED <<page_open, fallback_attempt>>
    /\ navigations' = 0
    /\ attempt_outcomes' = <<>>
    /\ fallback_return' = "unset"
    /\ UNCHANGED <<fallback_urls, fallback_index, fallback_calls>>
    /\ UNCHANGED not_fallback_vars

\* await page.goto(...)
FallbackGoto ==
    /\ fallback_pc = "goto"
    /\ navigations' = navigations + 1
    /\ \/ /\ fallback_pc' = "wait_for_selector"
          /\ UNCHANGED <<fallback_attempt, attempt_outcomes, fallback_return>>
       \/ attempt_failed("goto")
    /\ UNCHANGED <<fallback_urls, fallback_index, page_open, fallback_calls>>
    /\ UNCHANGED not_fallback_vars

\* await page.wait_for_selector("body", timeout=5000)
FallbackWaitForSelector ==
    /\ fallback_pc = "wait_for_selector"
    /\ \/ /\ fallback_pc' = "wait_for_timeout"
          /\ UNCHANGED <<fallback_attempt, attempt_outcomes, fallback_return>>
       \/ attempt_failed("wait_for_selector")
    /\ UNCHANGED <<fallback_urls, fallback_index, page_open, navigations, fallback_calls>>
    /\ UNCHANGED not_fallback_vars

\* await page.wait_for_timeout(600)
FallbackWaitForTimeout ==
    /\ fallback_pc = "wait_for_timeout"
    /\ \/ /\ fallback_pc' = "content"
          /\ UNCHANGED <<fallback_attempt, attempt_outcomes, fallback_return>>
       \/ attempt_failed("wait_for_timeout")
    /\ UNCHANGED <<fallback_urls, fallback_index, page_open, navigations, fallback_calls>>
    /\ UNCHANGED not_fallback_vars

\* html_text = await page.content(); return html_text
FallbackContent ==
    /\ fallback_pc = "content"
    /\ \/ /\ attempt_outcomes' = Append(attempt_outcomes, "ok")
          /\ fallback_return' = page_content(fallback_urls[fallback_index], fallback_attempt)
          /\ fallback_pc' = "close"
          /\ UNCHANGED fallback_attempt
       \/ attempt_failed("content")
    /\ UNCHANGED <<fallback_urls, fallback_index, page_open, navigations, fallback_calls>>
    /\ UNCHANGED not_fallback_vars

\* finally: await page.close(); then the function returns to the loop
FallbackClosePage ==
    /\ fallback_pc = "close"
    /\ page_open' = FALSE
    /\ fallback_calls' = Append(fallback_calls,
            [url |-> fallback_urls[fallback_index],
             navigations |-> navigations,
             attempt_outcomes |-> attempt_outcomes,
             returned |-> fallback_return,
             page_open |-> page_open'])
    /\ fallback_pc' = "returned"
    /\ UNCHANGED <<fallback_urls, fallback_index, fallback_attempt, navigations,
                   attempt_outcomes, fallback_return>>
    /\ UNCHANGED not_fallback_vars

\* the loop: await asyncio.sleep(inter_request_pause_seconds), next link
FallbackNextLink ==
    /\ fallback_pc = "returned"
    /\ fallback_index' = fallback_index + 1
    /\ fallback_pc' = IF fallback_index < Len(fallback_urls) THEN "new_page" ELSE "done"
    /\ UNCHANGED <<fallback_urls, fallback_attempt, page_open, navigations,
                   attempt_outcomes, fallback_return, fallback_calls>>
    /\ UNCHANGED not_fallback_vars

NextFallback ==
    \/ FallbackNewPage
    \/ FallbackGoto
    \/ FallbackWaitForSelector
    \/ FallbackWaitForTimeout
    \/ FallbackContent
    \/ FallbackClosePage
    \/ FallbackNextLink

SpecFallback == InitFallback /\ [][NextFallback]_vars

----------------------------------------------------------------------------
(* ktmmobile_modal_scrape: the card loop of run.iterate_cards. A dialog of  *)
(* the page is named by its id attribute; "" is a dialog without one.       *)

MaxCards == 2            \* cards of the tab panel

\* data-dialog-target values of the triggers a card can carry: all of them
\* contain 'modalProduct', as the four trigger selectors demand
TriggerLists ==
    {<<>>, <<"#modalProduct">>, <<"modalProduct">>,
     <<"#modalProductCompare", "#modalProduct">>}

\* dialogs of the page that are not the target of a trigger
OtherDialogs == {"modalArs", ""}

\* target = ("#" + target) if target and not target.startswith("#")
\*          else (target or "#modalProduct")
dialog_target(attribute) ==
    IF attribute = "" THEN "#modalProduct"
    ELSE IF SubSeq(attribute, 1, 1) # "#" THEN "#" \o attribute
    ELSE attribute

\* the id of the element page.locator(target) stands for
target_id(target) == SubSeq(target, 2, Len(target))

\* line 589: if root_id and root_id != "modalProduct"
is_other_modal(root_id) == root_id # "" /\ root_id # "modalProduct"

InitModal ==
    /\ \E n \in 1..MaxCards : modal_cards \in [1..n -> TriggerLists]
    /\ modal_card_index = 1
    /\ modal_trigger_index = 0
    /\ modal_el = "none"
    /\ open_modals \in {{}, {"modalArs"}}
    /\ modal_rows = <<>>
    /\ modal_pc = "card"
    /\ CrawlIdle
    /\ ExtractIdle
    /\ CountIdle
    /\ SiwolIdle
    /\ PlaywrightIdle
    /\ WorkersIdle
    /\ FallbackIdle
    /\ RetryIdle
    /\ PaginationIdle
    /\ CollectorIdle
    /\ PopupIdle

\* the card loop moves on: to the next card, or out of the loop
next_card ==
    /\ modal_card_index' = modal_card_index + 1
    /\ modal_trigger_index' = 0
    /\ modal_pc' = IF modal_card_index < Len(modal_cards) THEN "card" ELSE "done"

\* continue: the next trigger of the card, or [SKIP] and the next card
next_trigger ==
    IF modal_trigger_index < Len(modal_cards[modal_card_index])
    THEN /\ modal_trigger_index' = modal_trigger_index + 1
         /\ modal_pc' = "click"
         /\ UNCHANGED modal_card_index
    ELSE next_card

\* top of the card loop: collect the triggers; without any the card is
\* skipped, else close_all_modals and on to the first trigger
ModalTakeCard ==
    /\ modal_pc = "card"
    /\ IF modal_cards[modal_card_index] = <<>>
       THEN /\ next_card
            /\ UNCHANGED open_modals
       ELSE /\ open_modals' = {}
            /\ modal_trigger_index' = 1
            /\ modal_pc' = "click"
            /\ UNCHANGED modal_card_index
    /\ UNCHANGED <<modal_cards, modal_el, modal_rows>>
    /\ UNCHANGED not_modal_vars

\* modal_el = click_and_wait_modal(page, link, target): it raises (the
\* click failed: close_all_modals, next trigger), or returns the target
\* (shown, or not shown after all waits ran out), or returns another dialog
\* that is visible
ModalClickAndWait ==
    /\ modal_pc = "click"
    /\ LET target == dialog_target(modal_cards[modal_card_index][modal_trigger_index])
       IN  \/ /\ open_modals' = {}
              /\ next_trigger
              /\ UNCHANGED modal_el
           \/ /\ modal_el' = target_id(target)
              /\ open_modals' \in {{target_id(target)}, {}}
              /\ modal_pc' = "check"
              /\ UNCHANGED <<modal_card_index, modal_trigger_index>>
           \/ \E other \in OtherDialogs :
                 /\ modal_el' = other
                 /\ open_modals' = {other}
                 /\ modal_pc' = "check"
                 /\ UNCHANGED <<modal_card_index, modal_trigger_index>>
    /\ UNCHANGED <<modal_cards, modal_rows>>
    /\ UNCHANGED not_modal_vars

\* root_id = modal_el.first.get_attribute("id") or "": another modal is
\* closed and the next trigger tried; an exception of get_attribute is
\* passed over
ModalCheckRoot ==
    /\ modal_pc = "check"
    /\ \/ /\ is_other_modal(modal_el)
          /\ open_modals' = {}
          /\ next_trigger
       \/ /\ ~is_other_modal(modal_el)
          /\ modal_pc' = "extract"
          /\ UNCHANGED <<open_modals, modal_card_index, modal_trigger_index>>
       \/ /\ modal_pc' = "extract"
          /\ UNCHANGED <<open_modals, modal_card_index, modal_trigger_index>>
    /\ UNCHANGED <<modal_cards, modal_el, modal_rows>>
    /\ UNCHANGED not_modal_vars

\* the rest of the trigger loop: inner_html of modal_el, the files, the
\* row, close_all_modals and break; inner_html raising a second time leaves
\* run
ModalExtractAndWrite ==
    /\ modal_pc = "extract"
    /\ \/ /\ modal_rows' = Append(modal_rows,
                 [card_index |-> modal_card_index, modal |-> modal_el])
          /\ open_modals' = {}
          /\ next_card
       \/ /\ modal_pc' = "raised"
          /\ UNCHANGED <<modal_rows, open_modals, modal_card_index, modal_trigger_index>>
    /\ UNCHANGED <<modal_cards, modal_el>>
    /\ UNCHANGED not_modal_vars

NextModal ==
    \/ ModalTakeCard
    \/ ModalClickAndWait
    \/ ModalCheckRoot
    \/ ModalExtractAndWrite

SpecModal == InitModal /\ [][NextModal]_vars

----------------------------------------------------------------------------
(* siwol_scraper.fetch(url, max_retries): one GET per attempt, a sleep       *)
(* between a failed attempt and the next. Seconds are counted in tenths.    *)

MaxRetries == 3          \* largest max_retries tried (the default)

\* what SESSION.get can raise
GetErrors == {"ConnectionError", "Timeout", "TooManyRedirects"}

\* resp.text of the attempt
response_text(attempt) == "body of attempt " \o ToString(attempt)

\* fetch with the same pause after every failure
sleep_tenths_flat(attempt) == 15

\* time.sleep(1.5 * attempt)
sleep_tenths(attempt) == 15 * attempt

InitRetry ==
    /\ retry_max_retries \in 1..MaxRetries
    /\ retry_attempt = 1
    /\ retry_pc = "get"
    /\ retry_errors = <<>>
    /\ retry_sleeps = <<>>
    /\ retry_result = ""
    /\ CrawlIdle
    /\ ExtractIdle
    /\ CountIdle
    /\ SiwolIdle
    /\ PlaywrightIdle
    /\ WorkersIdle
    /\ FallbackIdle
    /\ ModalIdle
    /\ PaginationIdle
    /\ CollectorIdle
    /\ PopupIdle

\* except Exception: the last attempt re-raises, any other goes to sleep
attempt_raised(error) ==
    /\ retry_errors' = Append(retry_errors, error)
    /\ IF retry_attempt = retry_max_retries
       THEN /\ retry_pc' = "raised"
            /\ retry_result' = error
       ELSE /\ retry_pc' = "sleep"
            /\ UNCHANGED retry_result

\* resp = SESSION.get(url, timeout=timeout)
RetryGet ==
    /\ retry_pc = "get"
    /\ \/ /\ retry_pc' = "raise_for_status"
          /\ UNCHANGED <<retry_errors, retry_result>>
       \/ \E error \in GetErrors : attempt_raised(error)
    /\ UNCHANGED <<retry_max_retries, retry_attempt, retry_sleeps>>
    /\ UNCHANGED not_retry_vars

\* resp.raise_for_status(); return resp.text
RetryRaiseForStatus ==
    /\ retry_pc = "raise_for_status"
    /\ \/ /\ retry_pc' = "returned"
          /\ retry_result' = response_text(retry_attempt)
          /\ UNCHANGED retry_errors
       \/ attempt_raised("HTTPError")
    /\ UNCHANGED <<retry_max_retries, retry_attempt, retry_sleeps>>
    /\ UNCHANGED not_retry_vars

\* time.sleep(1.5 * attempt), then the next attempt of the for loop
RetrySleep ==
    /\ retry_pc = "sleep"
    /\ retry_sleeps' = Append(retry_sleeps, sleep_tenths(retry_attempt))
    /\ retry_attempt' = retry_attempt + 1
    /\ retry_pc' = "get"
    /\ UNCHANGED <<retry_max_retries, retry_errors, retry_result>>
    /\ UNCHANGED not_retry_vars

NextRetry ==
    \/ RetryGet
    \/ RetryRaiseForStatus
    \/ RetrySleep

SpecRetry == InitRetry /\ [][NextRetry]_vars

----------------------------------------------------------------------------
(* Wooriwonmobile_scrape.iterate_rate_plan_list_pages: the pagination loop  *)
(* that collects the detail links, one row per plan_identifier              *)

MaxPageCount == 3        \* visited_page_count is followed up to this value

\* maximum_list_pages_to_visit: None or 0 (both written 0) switch the limit off
PageLimits == {0, 1, 2}

\* the id attributes of the .cardplanitem elements of a list page, "" for a
\* card without id
CardLists ==
    { <<>>,
      <<"">>,
      <<"cardplanitem-PD1", "cardplanitem-PD2">>,
      <<"cardplanitem-PD2", "cardplanitem-PD3">>,
      <<"", "cardplanitem-PD1">>,
      <<"cardplanitem-PD3", "cardplanitem-PD1", "cardplanitem-PD3">> }

\* button[class^="Pagination_next__"]: absent, carrying disabled, or usable
NextButtons == {"missing", "disabled", "enabled"}

ListPages == [cards : CardLists, next : NextButtons]

\* str.replace(old, ""): every occurrence of old is removed, left to right
RECURSIVE str_remove(_, _)
str_remove(text, old) ==
    IF Len(text) < Len(old) THEN text
    ELSE IF SubSeq(text, 1, Len(old)) = old
         THEN str_remove(SubSeq(text, Len(old) + 1, Len(text)), old)
         ELSE SubSeq(text, 1, 1) \o str_remove(SubSeq(text, 2, Len(text)), old)

\* raw_element_identifier.replace("cardplanitem-", "")
plan_identifier_of(raw_element_identifier) ==
    str_remove(raw_element_identifier, "cardplanitem-")

\* extract_cards_on_list_page: cards without id are passed over, the others
\* give one row each, in page order
extract_cards_on_list_page(cards) ==
    LET with_id == SelectSeq(cards, LAMBDA raw : raw # "")
    IN  [i \in 1..Len(with_id) |-> plan_identifier_of(with_id[i])]

\* first_card_plan_identifier: the first extracted row's, None ("") without rows
first_card_plan_identifier(extracted_rows) ==
    IF extracted_rows = <<>> THEN "" ELSE extracted_rows[1]

\* for single_row in extracted_rows: rows whose plan_identifier is not in the
\* seen set are added to it and appended
RECURSIVE collect_unseen(_, _, _)
collect_unseen(extracted_rows, seen, collected) ==
    IF extracted_rows = <<>> THEN [seen |-> seen, collected |-> collected]
    ELSE IF extracted_rows[1] \in seen
         THEN collect_unseen(Tail(extracted_rows), seen, collected)
         ELSE collect_unseen(Tail(extracted_rows),
                             seen \cup {extracted_rows[1]},
                             Append(collected, extracted_rows[1]))

\* the statement that leaves the loop before the click, "" when none does:
\* the page limit, the missing next button, its disabled attribute, no first
\* plan_identifier
stop_before_click_ignoring_disabled(limit, count, next_button, first_identifier) ==
    IF limit # 0 /\ count >= limit THEN "limit"
    ELSE IF next_button = "missing" THEN "next_missing"
    ELSE IF first_identifier = "" THEN "no_first_card"
    ELSE ""
stop_before_click(limit, count, next_button, first_identifier) ==
    IF limit # 0 /\ count >= limit THEN "limit"
    ELSE IF next_button = "missing" THEN "next_missing"
    ELSE IF next_button = "disabled" THEN "next_disabled"
    ELSE IF first_identifier = "" THEN "no_first_card"
    ELSE ""

\* the predicate of wait_for_function: the first .cardplanitem exists and its
\* id, "cardplanitem-" removed, is non-empty and differs from firstId
first_card_changed(cards, first_identifier) ==
    /\ cards # <<>>
    /\ plan_identifier_of(cards[1]) # ""
    /\ plan_identifier_of(cards[1]) # first_identifier

\* visited_page_count += 1; without a limit the count is never read and is
\* followed only up to MaxPageCount
count_page(count, limit) ==
    IF limit = 0 /\ count >= MaxPageCount THEN count ELSE count + 1

InitPagination ==
    /\ list_page \in ListPages
    /\ maximum_list_pages_to_visit \in PageLimits
    /\ visited_page_count = 0
    /\ collected_rows = <<>>
    /\ seen_plan_identifier_set = {}
    /\ first_plan_identifier_before = ""
    /\ stop_reason = ""
    /\ pagination_pc = "extract"
    /\ CrawlIdle
    /\ ExtractIdle
    /\ CountIdle
    /\ SiwolIdle
    /\ PlaywrightIdle
    /\ WorkersIdle
    /\ FallbackIdle
    /\ ModalIdle
    /\ RetryIdle
    /\ CollectorIdle
    /\ PopupIdle

\* one pass of the while body up to the click: the cards are extracted
\* (wait_for_selector raises on a page without any card), the unseen rows are
\* collected, and the loop is left or the next button is clicked
PaginationExtractAndClick ==
    /\ pagination_pc = "extract"
    /\ visited_page_count' = count_page(visited_page_count, maximum_list_pages_to_visit)
    /\ IF list_page.cards = <<>>
       THEN /\ pagination_pc' = "raised"
            /\ UNCHANGED <<collected_rows, seen_plan_identifier_set,
                           first_plan_identifier_before, stop_reason>>
       ELSE LET extracted_rows == extract_cards_on_list_page(list_page.cards)
                first == first_card_plan_identifier(extracted_rows)
                folded == collect_unseen(extracted_rows, seen_plan_identifier_set,
                                         collected_rows)
                reason == stop_before_click(maximum_list_pages_to_visit,
                                            visited_page_count', list_page.next, first)
            IN  /\ first_plan_identifier_before' = first
                /\ seen_plan_identifier_set' = folded.seen
                /\ collected_rows' = folded.collected
                /\ stop_reason' = reason
                /\ pagination_pc' = IF reason = "" THEN "clicked" ELSE "returned"
    /\ UNCHANGED <<list_page, maximum_list_pages_to_visit>>
    /\ UNCHANGED not_pagination_vars

\* wait_for_function after the click: the site has served some list page; the
\* loop goes on when its first card changed and is left when the wait times out
PaginationWaitForFunction ==
    /\ pagination_pc = "clicked"
    /\ \E served \in ListPages :
           /\ list_page' = served
           /\ IF first_card_changed(served.cards, first_plan_identifier_before)
              THEN /\ pagination_pc' = "extract"
                   /\ UNCHANGED stop_reason
              ELSE /\ pagination_pc' = "returned"
                   /\ stop_reason' = "first_unchanged"
    /\ UNCHANGED <<maximum_list_pages_to_visit, visited_page_count, collected_rows,
                   seen_plan_identifier_set, first_plan_identifier_before>>
    /\ UNCHANGED not_pagination_vars

NextPagination ==
    \/ PaginationExtractAndClick
    \/ PaginationWaitForFunction

\* the loop runs inside asyncio.run(main()) with nothing else to schedule:
\* a step that can be taken is taken
SpecPaginationFair ==
    /\ InitPagination
    /\ [][NextPagination]_vars
    /\ WF_vars(NextPagination)

----------------------------------------------------------------------------
(* LG_UMobile_URL_collector.main: the detail URLs of the list pages, one    *)
(* row per (seq, upPpnCd, devKdCd)                                          *)

MaxListUrls == 2         \* entries of LIST_URLS

\* the data attributes of a compare button of a list page
button(seq, up, dev) == [seq |-> seq, upPpnCd |-> up, devKdCd |-> dev]

\* what one list URL answers: fetch_soup raises, or the page has these buttons
ListResponses ==
    { [ok |-> FALSE, buttons |-> <<>>],
      [ok |-> TRUE,  buttons |-> <<>>],
      [ok |-> TRUE,  buttons |-> <<button("1", "A", "00"), button("2", "A", "00")>>],
      [ok |-> TRUE,  buttons |-> <<button(" 1", "A", "00"), button("", "A", "00"),
                                   button("1", "A", "00")>>],
      [ok |-> TRUE,  buttons |-> <<button("2", "A", "00"), button("1", "B", "00")>>],
      [ok |-> TRUE,  buttons |-> <<button("3", "A", "00")>>] }

\* extract_detail_urls_from_list: buttons lacking one of the three attributes
\* are passed over, the attributes of the others are stripped
extract_detail_urls_from_list(buttons) ==
    LET complete == SelectSeq(buttons, LAMBDA b :
                        b.seq # "" /\ b.upPpnCd # "" /\ b.devKdCd # "")
    IN  [i \in 1..Len(complete) |->
            button(strip(complete[i].seq), strip(complete[i].upPpnCd),
                   strip(complete[i].devKdCd))]

\* key = (c["seq"], c["upPpnCd"], c["devKdCd"])
key_of(c) == <<c.seq, c.upPpnCd, c.devKdCd>>

\* for c in cand: a candidate whose key is in seen_keys is passed over, the
\* key of the others is added and their row appended to rows
RECURSIVE rows_of_new_keys_forgetting(_, _, _, _)
rows_of_new_keys_forgetting(cand, seen, new_rows, list_position) ==
    IF cand = <<>> THEN [seen |-> seen, rows |-> new_rows]
    ELSE IF key_of(cand[1]) \in seen
         THEN rows_of_new_keys_forgetting(Tail(cand), seen, new_rows, list_position)
         ELSE rows_of_new_keys_forgetting(Tail(cand), seen,
                  Append(new_rows, [list |-> list_position, key |-> key_of(cand[1])]),
                  list_position)
RECURSIVE rows_of_new_keys(_, _, _, _)
rows_of_new_keys(cand, seen, new_rows, list_position) ==
    IF cand = <<>> THEN [seen |-> seen, rows |-> new_rows]
    ELSE IF key_of(cand[1]) \in seen
         THEN rows_of_new_keys(Tail(cand), seen, new_rows, list_position)
         ELSE rows_of_new_keys(Tail(cand), seen \cup {key_of(cand[1])},
                  Append(new_rows, [list |-> list_position, key |-> key_of(cand[1])]),
                  list_position)

InitCollector ==
    /\ \E n \in 1..MaxListUrls : list_responses \in [1..n -> ListResponses]
    /\ list_index = 1
    /\ seen_keys = {}
    /\ appended_rows = <<>>
    /\ total = 0
    /\ collector_pc = "lists"
    /\ CrawlIdle
    /\ ExtractIdle
    /\ CountIdle
    /\ SiwolIdle
    /\ PlaywrightIdle
    /\ WorkersIdle
    /\ FallbackIdle
    /\ ModalIdle
    /\ RetryIdle
    /\ PaginationIdle
    /\ PopupIdle

\* one pass of for list_url in LIST_URLS: a failed fetch is reported and
\* changes nothing, otherwise the rows of the new keys are appended
CollectorListUrl ==
    /\ collector_pc = "lists"
    /\ list_index <= Len(list_responses)
    /\ LET response == list_responses[list_index]
           cand == extract_detail_urls_from_list(response.buttons)
           made == rows_of_new_keys(cand, seen_keys, <<>>, list_index)
       IN  IF response.ok
           THEN /\ seen_keys' = made.seen
                /\ appended_rows' = appended_rows \o made.rows
                /\ total' = total + Len(made.rows)
           ELSE UNCHANGED <<seen_keys, appended_rows, total>>
    /\ list_index' = list_index + 1
    /\ UNCHANGED <<list_responses, collector_pc>>
    /\ UNCHANGED not_collector_vars

\* after the loop the total is reported
CollectorDone ==
    /\ collector_pc = "lists"
    /\ list_index > Len(list_responses)
    /\ collector_pc' = "done"
    /\ UNCHANGED <<list_responses, list_index, seen_keys, appended_rows, total>>
    /\ UNCHANGED not_collector_vars

NextCollector ==
    \/ CollectorListUrl
    \/ CollectorDone

----------------------------------------------------------------------------
(* The three scripts that remove repeated targets before the detail crawl:  *)
(* one run of SK_7mobile_cwl or LG_UMobile_Data_collector, of               *)
(* LG_UMobile_URL_collector, or of Wooriwonmobile's pagination              *)

InitDedup ==
    \/ InitCount
    \/ InitCollector
    \/ InitPagination

NextDedup ==
    \/ NextCount
    \/ NextCollector
    \/ NextPagination

SpecDedup == InitDedup /\ [][NextDedup]_vars

----------------------------------------------------------------------------
(* scrape_plans.main and collect_all_plans: the popups of the rate items    *)

MaxPlanItems == 2        \* rate items in the list of the page

TabNames == {"usim", "partner"}

\* --main-tab given any number of times
MainTabArguments == SeqsOf(TabNames, 0, 2)

\* the tabs the main tablist holds
PageTabLists == {<<>>, <<"usim">>, <<"usim", "partner">>}

\* Locator.first is a property of Playwright's Python API: page.locator(x).first
\* is a Locator, and page.locator(x).first() calls that Locator, which raises
\* TypeError
locator_first_called == "TypeError"

InitPopup ==
    /\ popup_main_tabs \in MainTabArguments
    /\ tablist_visible \in BOOLEAN
    /\ page_tabs \in PageTabLists
    /\ selected_tab \in {""} \cup Range(page_tabs)
    /\ list_items \in 0..MaxPlanItems
    /\ popup_tab_index = 1
    /\ popup_results = <<>>
    /\ clicked_items = <<>>
    /\ open_popups = {}
    /\ popup_error = ""
    /\ browser_closed = FALSE
    /\ popup_pc = "tabs"
    /\ CrawlIdle
    /\ ExtractIdle
    /\ CountIdle
    /\ SiwolIdle
    /\ PlaywrightIdle
    /\ WorkersIdle
    /\ FallbackIdle
    /\ ModalIdle
    /\ RetryIdle
    /\ PaginationIdle
    /\ CollectorIdle

\* collect_all_plans up to the loop over main_tabs: the tablist must be
\* visible; without --main-tab the selected tab, or else the first tab, is taken
PopupResolveMainTabs ==
    /\ popup_pc = "tabs"
    /\ IF ~tablist_visible
       THEN /\ popup_error' = "AssertionError"
            /\ popup_pc' = "except"
            /\ UNCHANGED popup_main_tabs
       ELSE IF popup_main_tabs # <<>>
       THEN /\ popup_pc' = "select"
            /\ UNCHANGED <<popup_main_tabs, popup_error>>
       ELSE IF selected_tab # ""
       THEN /\ popup_main_tabs' = <<selected_tab>>
            /\ popup_pc' = "select"
            /\ UNCHANGED popup_error
       ELSE IF page_tabs # <<>>
       THEN /\ popup_main_tabs' = <<page_tabs[1]>>
            /\ popup_pc' = "select"
            /\ UNCHANGED popup_error
       ELSE /\ popup_error' = "TimeoutError"
            /\ popup_pc' = "except"
            /\ UNCHANGED popup_main_tabs
    /\ UNCHANGED <<tablist_visible, page_tabs, selected_tab, list_items, popup_tab_index,
                   popup_results, clicked_items, open_popups, browser_closed>>
    /\ UNCHANGED not_popup_vars

\* select_tab_by_name for main_tabs[popup_tab_index]: the click times out on a
\* name the tablist lacks; the clicked tab becomes the selected one or the
\* expectation on aria-selected fails
PopupSelectTab ==
    /\ popup_pc = "select"
    /\ popup_tab_index <= Len(popup_main_tabs)
    /\ LET main_name == popup_main_tabs[popup_tab_index]
       IN  IF main_name \notin Range(page_tabs)
           THEN /\ popup_error' = "TimeoutError"
                /\ popup_pc' = "except"
                /\ UNCHANGED selected_tab
           ELSE \E tab_selected \in BOOLEAN :
                    IF tab_selected
                    THEN /\ selected_tab' = main_name
                         /\ popup_pc' = "pick"
                         /\ UNCHANGED popup_error
                    ELSE /\ popup_error' = "AssertionError"
                         /\ popup_pc' = "except"
                         /\ UNCHANGED selected_tab
    /\ UNCHANGED <<popup_main_tabs, tablist_visible, page_tabs, list_items,
                   popup_tab_index, popup_results, clicked_items, open_popups,
                   browser_closed>>
    /\ UNCHANGED not_popup_vars

\* pick_sub_tabs: its first statement is page.locator(...).first()
PopupPickSubTabs ==
    /\ popup_pc = "pick"
    /\ popup_error' = locator_first_called
    /\ popup_pc' = "except"
    /\ UNCHANGED <<popup_main_tabs, tablist_visible, page_tabs, selected_tab, list_items,
                   popup_tab_index, popup_results, clicked_items, open_popups,
                   browser_closed>>
    /\ UNCHANGED not_popup_vars

\* main: except prints the error and raises it again, finally closes the
\* browser; output_path.write_text is not reached
PopupMainExcept ==
    /\ popup_pc = "except"
    /\ browser_closed' = TRUE
    /\ popup_pc' = "failed"
    /\ UNCHANGED <<popup_main_tabs, tablist_visible, page_tabs, selected_tab, list_items,
                   popup_tab_index, popup_results, clicked_items, open_popups,
                   popup_error>>
    /\ UNCHANGED not_popup_vars

NextPopup ==
    \/ PopupResolveMainTabs
    \/ PopupSelectTab
    \/ PopupPickSubTabs
    \/ PopupMainExcept

SpecPopup == InitPopup /\ [][NextPopup]_vars

----------------------------------------------------------------------------
(* Properties *)

\* positions of the visited links whose fetch succeeded, in visit order
SucceededPositions ==
    LET Ok(i) == fetch_results[i].ok
    IN  SelectSeq([i \in 1..Len(fetch_results) |-> i], Ok)

\* the ClassTextMap of the page behind the k-th record
ClassMapOfRecord(k) == fetch_results[SucceededPositions[k]].class_map

\* number of processed pages whose ClassTextMap contains the class
PagesWithClass(class_name) ==
    Cardinality({i \in 1..Len(fetch_results) :
                    fetch_results[i].ok /\ class_name \in DOMAIN fetch_results[i].class_map})

\* class names seen on a processed page so far
ObservedClassNames ==
    UNION {DOMAIN fetch_results[i].class_map : i \in 1..Len(fetch_results)}

\* the class columns of the written header: what follows the identity columns
HeaderClassColumns ==
    SubSeq(final_header_column_names, Len(base_column_names(scraper)) + 1,
           Len(final_header_column_names))

\* C1: when the fetch of one detail page fails, the loop still goes on to
\* every later link; the detail loop of a scraper is left only after every
\* collected link was visited.
C1_FailedPageNeverEndsBatch ==
    pc \in {"done", "aborted"} => Len(fetch_results) = Len(collected_link_rows)

\* C2: every written row has one cell per header column, and the cell under a
\* class column is the page's text for that class, or "" where the page
\* lacks the class.
C2_RowsHaveHeaderShape ==
    pc = "done" =>
        \A k \in 1..Len(csv_rows) :
            /\ Len(csv_rows[k]) = Len(final_header_column_names)
            /\ \A j \in (Len(base_column_names(scraper)) + 1)..Len(final_header_column_names) :
                   csv_rows[k][j] = DictGet(ClassMapOfRecord(k), final_header_column_names[j], "")

\* a written table in which one page fills a class column another page lacks
C2_Witness ==
    /\ pc = "done"
    /\ \E k1, k2 \in 1..Len(csv_rows) :
         \E j \in (Len(base_column_names(scraper)) + 1)..Len(final_header_column_names) :
            csv_rows[k1][j] = "" /\ csv_rows[k2][j] # ""

\* the identity values the caller supplied for the link at a position, in
\* the order of the identity columns
SuppliedIdentity(position) ==
    LET link == collected_link_rows[position]
    IN  IF scraper = "Amobile"
        THEN <<link.carrier_label,
               IF link.plan_identifier # "" THEN link.plan_identifier ELSE ToString(position),
               link.absolute_uniform_resource_locator>>
        ELSE IF scraper = "Wooriwonmobile"
        THEN <<link.plan_identifier, link.network_path_segment, link.detail_page_address>>
        ELSE <<link>>

\* C3: in every written row each identity column holds the value supplied
\* for that page's link, whatever class names the page uses.
C3_IdentityColumnsFromCaller ==
    pc = "done" =>
        \A k \in 1..Len(csv_rows) :
            \A j \in 1..Len(base_column_names(scraper)) :
                csv_rows[k][j] = SuppliedIdentity(SucceededPositions[k])[j]

\* C4: the support count of a class is the number of processed pages whose
\* ClassTextMap contains it, and no other name is counted.
C4_SupportCountsPages ==
    scraper \in {"Amobile", "Wooriwonmobile"} =>
        /\ DOMAIN class_name_support_counter = ObservedClassNames
        /\ \A class_name \in ObservedClassNames :
               support_count(class_name_support_counter, class_name) = PagesWithClass(class_name)

\* two pages were processed, one class is on both and another on one only
C4_Witness ==
    /\ scraper \in {"Amobile", "Wooriwonmobile"}
    /\ \E c1, c2 \in ObservedClassNames :
          /\ support_count(class_name_support_counter, c1) = 2
          /\ support_count(class_name_support_counter, c2) = 1

\* C5: the class columns of the header are the observed class names whose
\* support count reaches the threshold when the threshold is above 1, and
\* all observed class names otherwise, each once.
C5_ClassColumnsAreSupportedClasses ==
    (pc = "done" /\ scraper \in {"Amobile", "Wooriwonmobile"}) =>
        /\ Cardinality(Range(HeaderClassColumns)) = Len(HeaderClassColumns)
        /\ Range(HeaderClassColumns) =
               IF minimum_class_support_threshold > 1
               THEN {class_name \in ObservedClassNames :
                        PagesWithClass(class_name) >= minimum_class_support_threshold}
               ELSE ObservedClassNames

\* the class columns the writer would produce from the current records and
\* support counts under a given threshold
ClassColumnsUnder(threshold) ==
    LET header == final_header(detail_page_records, class_name_support_counter,
                               base_column_names(scraper), threshold)
    IN  Range(SubSeq(header, Len(base_column_names(scraper)) + 1, Len(header)))

\* C6: for the same records and support counts, a higher threshold never
\* adds a column: the columns under t2 are among the columns under t1 < t2.
C6_RaisingThresholdDropsColumns ==
    scraper \in {"Amobile", "Wooriwonmobile"} =>
        \A t1, t2 \in Thresholds :
            t1 < t2 => ClassColumnsUnder(t2) \subseteq ClassColumnsUnder(t1)

\* records for which a higher threshold keeps some columns and drops others
C6_Witness ==
    /\ scraper \in {"Amobile", "Wooriwonmobile"}
    /\ \E t1, t2 \in Thresholds :
          /\ t1 < t2
          /\ ClassColumnsUnder(t2) # {}
          /\ ClassColumnsUnder(t2) # ClassColumnsUnder(t1)

\* the header's class columns are in strictly increasing (descending
\* support, ascending name) order
SortedBySupportThenName ==
    \A i, j \in 1..Len(HeaderClassColumns) :
        i < j =>
            LET ci == HeaderClassColumns[i]
                cj == HeaderClassColumns[j]
            IN  \/ PagesWithClass(ci) > PagesWithClass(cj)
                \/ PagesWithClass(ci) = PagesWithClass(cj) /\ StrLess(ci, cj)

\* the header's class columns are in strictly increasing name order
SortedByName ==
    \A i, j \in 1..Len(HeaderClassColumns) :
        i < j => StrLess(HeaderClassColumns[i], HeaderClassColumns[j])

C8_RowsInLinkOrder ==
    pc = "done" =>
        /\ Len(csv_rows) = Len(SucceededPositions)
        /\ \A k \in 1..Len(csv_rows) :
              /\ \A j \in 1..Len(base_column_names(scraper)) :
                     base_column_names(scraper)[j] \notin ObservedClassNames =>
                         csv_rows[k][j] = SuppliedIdentity(SucceededPositions[k])[j]
              /\ \A j \in (Len(base_column_names(scraper)) + 1)..Len(final_header_column_names) :
                     csv_rows[k][j] =
                         DictGet(ClassMapOfRecord(k), final_header_column_names[j], "")

\* the first link failed and the second one was written as the only row,
\* with a class text of its page
C8_Witness ==
    /\ pc = "done"
    /\ Len(fetch_results) = 2
    /\ ~fetch_results[1].ok
    /\ fetch_results[2].ok
    /\ Len(csv_rows) = 1
    /\ \E j \in 1..Len(final_header_column_names) :
          j > Len(base_column_names(scraper)) /\ csv_rows[1][j] # ""

IsPrefix(s, t) == Len(s) <= Len(t) /\ SubSeq(t, 1, Len(s)) = s

\* one step of a run, seen as a step of the two-phase aggregation
C9_Step ==
    /\ pc = "crawl" =>
          /\ IsPrefix(detail_page_records, detail_page_records')
          /\ IsPrefix(page_class_maps, page_class_maps')
          /\ \A class_name \in DOMAIN class_name_support_counter :
                 /\ class_name \in DOMAIN class_name_support_counter'
                 /\ class_name_support_counter'[class_name]
                        >= class_name_support_counter[class_name]
          /\ (pc' = "done" \/ final_header_column_names' # final_header_column_names
                           \/ csv_rows' # csv_rows) =>
                 /\ pc' = "done"
                 /\ Len(fetch_results) = Len(collected_link_rows)
                 /\ detail_page_records' = detail_page_records
                 /\ page_class_maps' = page_class_maps
                 /\ class_name_support_counter' = class_name_support_counter
    /\ pc = "done" => UNCHANGED crawl_vars

\* C9: while accumulating, records are only appended and support counts
\* only grow; the header is written in the one step that finalizes, after
\* the last link was visited, and nothing changes afterwards; an Amobile or
\* Wooriwonmobile run that is still accumulating always has its next step.
C9_TwoPhaseLifecycle ==
    /\ [][C9_Step]_vars
    /\ []((scraper \in {"Amobile", "Wooriwonmobile"} /\ pc = "crawl") =>
             (index_value <= Len(collected_link_rows) + 1 /\ ENABLED Next))

\* a finalized run that accumulated two records
C9_Witness ==
    /\ pc = "done"
    /\ scraper \in {"Amobile", "Wooriwonmobile"}
    /\ Len(detail_page_records) = 2
    /\ \E class_name \in DOMAIN class_name_support_counter :
          class_name_support_counter[class_name] = 2


\* text.split(sep)
RECURSIVE split(_, _)
split(text, sep) ==
    LET hits == {i \in 1..(Len(text) - Len(sep) + 1) : SubSeq(text, i, i + Len(sep) - 1) = sep}
    IN  IF hits = {} THEN <<text>>
        ELSE LET first == CHOOSE i \in hits : \A other \in hits : i <= other
             IN  <<SubSeq(text, 1, first - 1)>>
                     \o split(SubSeq(text, first + Len(sep), Len(text)), sep)

\* the fragments of a joined value
Fragments(value) == Range(split(value, " | "))

\* the text an extractor computes for an element
ElementText(element) ==
    IF extractor = "Insmobile"
    THEN normalize_whitespace(get_text(element, " "))
    ELSE IF extractor = "Siwol_Mobile"
    THEN squash_spaces(get_text(element, " "))
    ELSE get_text(element, " ")

\* the value stored for a class was not shortened by the length cap:
\* safe_truncate leaves a value of at most the cap, a cut one is longer by
\* the marker; safe_join_texts keeps every text of the class
Uncut(class_name) ==
    IF extractor = "Insmobile"
    THEN max_text_length = 0 \/ Len(extracted_mapping[class_name]) <= max_text_length
    ELSE IF extractor = "Siwol_Mobile"
    THEN extracted_mapping[class_name] = join(" | ", parsed_class_map[class_name])
    ELSE TRUE

\* the element at position i has a class attribute and non-empty text
ClassedWithText(i) ==
    /\ html_source_text[i].class # <<>>
    /\ ElementText(html_source_text[i]) # ""

\* every class token of every classed element with text is a key whose
\* value, unless the length cap shortened it, has the element's text among
\* its fragments
FanOutPerToken ==
    \A i \in 1..Len(html_source_text) :
        ClassedWithText(i) =>
            \A class_name \in Range(html_source_text[i].class) :
                /\ class_name \in DOMAIN extracted_mapping
                /\ Uncut(class_name) =>
                       ElementText(html_source_text[i])
                           \in Fragments(extracted_mapping[class_name])

\* the whole class attribute of every classed element with text is a key
\* whose value has the element's text among its fragments
OneKeyPerClassAttribute ==
    \A i \in 1..Len(html_source_text) :
        ClassedWithText(i) =>
            LET key == join(" ", html_source_text[i].class)
            IN  /\ key \in DOMAIN extracted_mapping
                /\ ElementText(html_source_text[i]) \in Fragments(extracted_mapping[key])

----------------------------------------------------------------------------
(* C11: repeated texts within one class *)

\* how often a class name occurs in the class attribute of element i
Occurrences(i, class_name) ==
    Cardinality({j \in 1..Len(html_source_text[i].class) :
                    html_source_text[i].class[j] = class_name})

RECURSIVE Repeat(_, _)
Repeat(item, n) == IF n = 0 THEN <<>> ELSE <<item>> \o Repeat(item, n - 1)

\* the texts of the elements that bear a class, in document order, one per
\* element
TextsBearing(class_name) ==
    LET Bears(i) == ClassedWithText(i) /\ Occurrences(i, class_name) > 0
        positions == SelectSeq([i \in 1..Len(html_source_text) |-> i], Bears)
    IN  [k \in 1..Len(positions) |-> ElementText(html_source_text[positions[k]])]

\* the same texts, one per occurrence of the class in a class attribute
TextsPerOccurrence(class_name) ==
    Flatten([i \in 1..Len(html_source_text) |->
                IF ClassedWithText(i)
                THEN Repeat(ElementText(html_source_text[i]), Occurrences(i, class_name))
                ELSE <<>>])

\* the texts of the elements whose whole class attribute spells the key
TextsUnderAttribute(key) ==
    LET Spells(i) == ClassedWithText(i) /\ join(" ", html_source_text[i].class) = key
        positions == SelectSeq([i \in 1..Len(html_source_text) |-> i], Spells)
    IN  [k \in 1..Len(positions) |-> ElementText(html_source_text[positions[k]])]

NoFragmentTwice(value) ==
    LET fragments == split(value, " | ")
    IN  \A i, j \in 1..Len(fragments) : fragments[i] = fragments[j] => i = j

----------------------------------------------------------------------------
(* C12: keys and values of a class-text map are never empty *)

\* the keys the elements with text contribute under: their class tokens, or
\* for Sugarmobile their whole class attribute
ContributedKeys ==
    IF extractor = "Sugarmobile"
    THEN {join(" ", html_source_text[i].class) :
             i \in {k \in 1..Len(html_source_text) : ClassedWithText(k)}}
    ELSE UNION {Range(html_source_text[i].class) :
                   i \in {k \in 1..Len(html_source_text) : ClassedWithText(k)}}

\* C12: the map an extractor returns has exactly the classes of the
\* elements with non-empty text as keys, no key is the empty string and no
\* value is empty (for Siwol: no text list is empty or holds an empty text).
C12_KeysAndValuesNonEmpty ==
    /\ (xpc = "returned" /\ extractor # "Siwol_Mobile") =>
           /\ DOMAIN extracted_mapping = ContributedKeys
           /\ \A class_name \in DOMAIN extracted_mapping :
                  class_name # "" /\ extracted_mapping[class_name] # ""
    /\ (xpc \in {"parsed", "returned"} /\ extractor = "Siwol_Mobile") =>
           /\ DOMAIN parsed_class_map = ContributedKeys
           /\ \A class_name \in DOMAIN parsed_class_map :
                  /\ class_name # ""
                  /\ parsed_class_map[class_name] # <<>>
                  /\ \A k \in 1..Len(parsed_class_map[class_name]) :
                         parsed_class_map[class_name][k] # ""

\* Amobile's extractor returned for a document in which one class is borne
\* only by an element of blank text and another by an element with text:
\* the first is no key, the second is
C12_Witness ==
    /\ xpc = "returned"
    /\ extractor = "Amobile"
    /\ \E i, j \in 1..Len(html_source_text) :
          /\ html_source_text[i].class = <<"a">>
          /\ html_source_text[i].strings = <<" ">>
          /\ html_source_text[j].class = <<"b">>
          /\ ClassedWithText(j)
          /\ DOMAIN extracted_mapping = {"b"}

----------------------------------------------------------------------------
(* C13: the per-cell length cap *)

\* the texts an extractor with a length cap joins for a class, before the cap
TextsToJoin(class_name) ==
    IF extractor = "Siwol_Mobile"
    THEN TextsPerOccurrence(class_name)
    ELSE Dedup(TextsBearing(class_name))

\* the joined string cut after L characters, with the marker behind the cut
CutWithMarker(joined, L) ==
    IF Len(joined) > L THEN SubSeq(joined, 1, L) \o ELLIPSIS ELSE joined

\* the join of the longest run of leading texts that fits in L characters
WholeTextsWithin(texts, L) ==
    LET Fits(k) == Len(join(" | ", SubSeq(texts, 1, k))) <= L
        kept == CHOOSE k \in 0..Len(texts) :
                    /\ \A m \in 0..k : Fits(m)
                    /\ k < Len(texts) => ~Fits(k + 1)
    IN  join(" | ", SubSeq(texts, 1, kept))

----------------------------------------------------------------------------
(* C14: whitespace inside the stored fragments *)

\* C14: every fragment of every stored value is whitespace-normalized (no
\* blank at either end, no run of two or more blanks), so texts that
\* differ only in whitespace end up as one fragment.
C14_FragmentsWhitespaceNormalized ==
    xpc = "returned" =>
        \A class_name \in DOMAIN extracted_mapping :
            Uncut(class_name) =>
                LET fragments == split(extracted_mapping[class_name], " | ")
                IN  /\ \A k \in 1..Len(fragments) :
                           fragments[k] = normalize_whitespace(fragments[k])
                    /\ \A k, m \in 1..Len(fragments) :
                           (extractor \notin {"Sugarmobile", "Siwol_Mobile"}
                            /\ normalize_whitespace(fragments[k])
                                   = normalize_whitespace(fragments[m])) => k = m

----------------------------------------------------------------------------
(* C15: a fetched page without classed elements *)

\* this step visited a link whose page was fetched and gave an empty map
EmptyPageVisited ==
    /\ Len(fetch_results') = Len(fetch_results) + 1
    /\ fetch_results'[Len(fetch_results')] = FetchSucceeded(EmptyDict)

\* C15: visiting a fetched page whose ClassTextMap is empty leaves the run
\* in its loop with the next link up, leaves every support count as it was
\* and adds one record; in the written table there is one row per fetched
\* page, and the row of such a page is empty under every class column and
\* carries the link's identity (in every identity column that is not also
\* a class name of the batch).
C15_EmptyPageStep ==
    EmptyPageVisited =>
        /\ pc' = "crawl"
        /\ index_value' = index_value + 1
        /\ class_name_support_counter' = class_name_support_counter
        /\ Len(detail_page_records') + Len(page_class_maps')
               = Len(detail_page_records) + Len(page_class_maps) + 1

C15_EmptyPageRow ==
    pc = "done" =>
        /\ Len(csv_rows) = Len(SucceededPositions)
        /\ \A k \in 1..Len(csv_rows) :
               ClassMapOfRecord(k) = EmptyDict =>
                   /\ \A j \in (Len(base_column_names(scraper)) + 1)
                                    ..Len(final_header_column_names) :
                          csv_rows[k][j] = ""
                   /\ \A j \in 1..Len(base_column_names(scraper)) :
                          base_column_names(scraper)[j] \notin ObservedClassNames =>
                              csv_rows[k][j] = SuppliedIdentity(SucceededPositions[k])[j]

----------------------------------------------------------------------------
(* C16: successes and failures add up *)

\* the distinct URLs of the input
DistinctInputUrls == Range(all_detail_urls)

\* the URLs the loop went through, in order
VisitedUrls == IF driver = "SK_SevenMobile" THEN uniq_urls ELSE input_rows

\* the positions of the visited URLs whose fetch or parse raised
RaisedPositions == {i \in 1..Len(outcomes) : outcomes[i] # "ok"}

Successes == IF driver = "SK_SevenMobile" THEN Len(rows) ELSE total_ok
Failures == IF driver = "SK_SevenMobile" THEN Len(failed) ELSE total_bad

\* C16: when the detail loop has ended, successes + failures is the number
\* of distinct input URLs, every one of them was visited once, the
\* failures are as many as the URLs that raised, and SK_7mobile_cwl's
\* failed list names exactly those URLs.
C16_EveryUrlCountedOnce ==
    dpc = "done" =>
        /\ Successes + Failures = Cardinality(DistinctInputUrls)
        /\ Len(outcomes) = Cardinality(DistinctInputUrls)
        /\ Range(VisitedUrls) = DistinctInputUrls
        /\ Failures = Cardinality(RaisedPositions)
        /\ driver = "SK_SevenMobile" =>
               /\ {failed[k][1] : k \in 1..Len(failed)}
                      = {uniq_urls[i] : i \in RaisedPositions}
               /\ Range(rows) = {uniq_urls[i] : i \in (1..Len(outcomes)) \ RaisedPositions}
               /\ Range(rows) \cap {failed[k][1] : k \in 1..Len(failed)} = {}

\* SK_7mobile_cwl ended on an input with a repeated URL, with one page
\* parsed and two failures of different kinds
C16_Witness ==
    /\ dpc = "done"
    /\ driver = "SK_SevenMobile"
    /\ Len(all_detail_urls) > Len(uniq_urls)
    /\ Len(rows) = 1
    /\ Len(failed) = 2
    /\ failed[1][2] # failed[2][2]

----------------------------------------------------------------------------
(* C17: siwol's wide and long tables *)

\* the positions of the URLs whose fetch or parse failed
SiwolFailedPositions ==
    {k \in 1..Len(per_page_class_texts) :
        per_page_class_texts[k] = failed_class_map(siwol_detail_urls[k], "HTTPError")}

\* C17: the wide table has one row per detail URL, in URL order, each
\* carrying its URL; the row of a failed URL is empty under every class
\* column, and the long table holds exactly one "__error__" record for it.
C17_OneWideRowPerUrl ==
    spc = "done" =>
        /\ Len(wide_rows) = Len(siwol_detail_urls)
        /\ \A k \in 1..Len(wide_rows) : wide_rows[k]["url"] = siwol_detail_urls[k]
        /\ \A k \in SiwolFailedPositions :
               /\ \A column \in (DOMAIN wide_rows[k]) \ {"url"} : wide_rows[k][column] = ""
               /\ Cardinality({m \in 1..Len(long_records) :
                                   /\ long_records[m].url = siwol_detail_urls[k]
                                   /\ long_records[m].class_name = "__error__"}) = 1

----------------------------------------------------------------------------
(* C18: browsers open under the semaphore *)

OpenBrowsers == {t \in Tasks : browser_open[t]}

\* the tasks inside the async with block
HoldsSemaphore(t) == task_pc[t] \in {"acquired", "launched", "page", "closing"}

\* C18: at any moment at most `concurrency` browsers are open, and a
\* browser is open only while its task holds the semaphore.
C18_BrowsersBoundedBySemaphore ==
    /\ Cardinality(OpenBrowsers) <= concurrency
    /\ \A t \in OpenBrowsers : HoldsSemaphore(t)

\* workers inside the locked body of RateLimiter.wait(): between two
\* actions that is a worker in its asyncio.sleep
InsideWait == {w \in Workers : worker_pc[w] = "sleeping"}

\* at most one worker is inside wait(), and it holds the lock
OneWorkerInsideWait ==
    /\ Cardinality(InsideWait) <= 1
    /\ InsideWait # {} => lock_locked

\* pairs of consecutive returns from wait()
ConsecutiveReturns == 1..(Len(wait_returns) - 1)

\* ticks between the i-th return from wait() and the next
ReturnGap(i) == wait_returns[i + 1] - wait_returns[i]

\* C19 as stated: at most one worker at a time is inside RateLimiter.wait(),
\* and two consecutive returns from wait() are at least 1/rate apart, the
\* rate being the configured --rate (gap * rate >= 1, in ticks and 1/10000;
\* a rate of 0 has no 1/rate and is left out).
C19_ReturnsSpacedByConfiguredRate ==
    /\ OneWorkerInsideWait
    /\ \A i \in ConsecutiveReturns :
          rate_per_sec > 0 => ReturnGap(i) * rate_per_sec >= 10 * 10000

\* C19, amended: at most one worker at a time is inside RateLimiter.wait(),
\* and two consecutive returns are at least min_interval =
\* 1/max(rate, 0.001) apart; that is 1/rate for every rate of 0.001 or more.
C19_ReturnsSpacedByMinInterval ==
    /\ OneWorkerInsideWait
    /\ \A i \in ConsecutiveReturns :
          /\ ReturnGap(i) >= min_interval(rate_per_sec)
          /\ rate_per_sec >= 10 => ReturnGap(i) * rate_per_sec >= 10 * 10000

\* two workers have both come out of wait() and have their requests in
\* flight, the second exactly min_interval after the first
C19_Witness ==
    /\ worker_count = 2
    /\ \A w \in Workers : worker_pc[w] = "fetch"
    /\ Len(wait_returns) = 2
    /\ ReturnGap(1) = min_interval(rate_per_sec)

\* how many times the item was requested
RequestsOf(queued_item) ==
    Cardinality({i \in 1..Len(request_log) : request_log[i] = queued_item})

\* C20: an item whose fetch failed (status 0, a status other than 200, or
\* no body) was requested again before it was given up: every item logged
\* as FAILED FETCH was requested at least twice.
C20_FailedItemRequestedAgain ==
    \A queued_item \in failed_fetches : RequestsOf(queued_item) >= 2

\* a worker has handled the response of some item, up to its task_done()
SomeFetchReturned ==
    /\ DOMAIN fetched # {}
    /\ \A w \in Workers :
          ~(worker_pc[w] = "row_built" /\ worker_item[w] = fetched.queued_item)

\* C21: a row is written for an item if and only if its final URL does not
\* contain '/error', the status is 200 and the body is non-empty; an item
\* redirected to the error page is never written.
C21_RowIffUsableResponse ==
    SomeFetchReturned =>
        ((\E i \in 1..Len(plan_rows) : plan_rows[i] = fetched.queued_item)
            <=> (/\ ~contains(fetched.final_url, "/error")
                 /\ fetched.status = 200
                 /\ fetched.html # ""))

\* one item's row is written, and the item handled last came back from the
\* error page with status 200 and a body
C21_Witness ==
    /\ SomeFetchReturned
    /\ contains(fetched.final_url, "/error")
    /\ fetched.status = 200
    /\ fetched.html # ""
    /\ Len(plan_rows) = 1

\* the attempts of a finished call that succeeded
SucceededAttempts(call) ==
    {k \in 1..Len(call.attempt_outcomes) : call.attempt_outcomes[k] = "ok"}

\* C22: fetch_detail_html_with_fallback navigates at most twice (one attempt,
\* then one retry on failure), returns the HTML of the first attempt that
\* succeeds, returns None only when both attempts fail, and has closed the
\* page it opened when it returns.
C22_TwoAttemptsFirstSuccessPageClosed ==
    /\ navigations <= 2
    /\ fallback_pc \in {"returned", "done"} => ~page_open
    /\ \A c \in 1..Len(fallback_calls) :
          LET call == fallback_calls[c] IN
          /\ call.navigations <= 2
          /\ call.navigations = Len(call.attempt_outcomes)
          /\ \A k \in SucceededAttempts(call) :
                /\ k = Len(call.attempt_outcomes)
                /\ call.returned = page_content(call.url, k)
          /\ call.returned = "None" =>
                /\ Len(call.attempt_outcomes) = 2
                /\ SucceededAttempts(call) = {}
          /\ SucceededAttempts(call) = {} => call.returned = "None"
          /\ ~call.page_open

\* one call returned the HTML of its retry, another returned None after two
\* failed attempts
C22_Witness ==
    /\ fallback_pc = "done"
    /\ \E c \in 1..Len(fallback_calls) :
          /\ fallback_calls[c].attempt_outcomes = <<"goto", "ok">>
          /\ fallback_calls[c].returned = page_content(fallback_calls[c].url, 2)
    /\ \E c \in 1..Len(fallback_calls) :
          /\ Len(fallback_calls[c].attempt_outcomes) = 2
          /\ fallback_calls[c].returned = "None"

\* C23: a CSV row is appended only for content read from the #modalProduct
\* modal; when the modal that opened is a different one, it is closed and
\* no row is written from it.
C23_RowsOnlyFromModalProduct ==
    /\ \A r \in 1..Len(modal_rows) : modal_rows[r].modal = "modalProduct"
    /\ modal_pc = "click" => open_modals = {}

\* C24: in every row written by crawler_playwright.main the seq, upPpnCd and
\* devKdCd columns are the parameters of the URL whose fetch produced the
\* row's url and data, whatever the completion order of the fetches.
C24_RowParametersMatchFetchedUrl ==
    \A r \in 1..Len(written_rows) :
        \E i \in 1..Len(urls) :
            /\ urls[i].url = written_rows[r].url
            /\ urls[i].seq = written_rows[r].seq
            /\ urls[i].upPpnCd = written_rows[r].upPpnCd
            /\ urls[i].devKdCd = written_rows[r].devKdCd

\* the entries main put on the queue before the workers started
QueuedItems == DOMAIN task_done_calls \ {NONE}

\* how often queue.get() handed the entry out
TimesTaken(entry) ==
    Cardinality({i \in 1..Len(taken_items) : taken_items[i] = entry})

\* no item is handed out twice or marked done twice, and task_done() is
\* never called more often than put
NothingTwice ==
    /\ \A entry \in QueuedItems :
          /\ TimesTaken(entry) <= 1
          /\ task_done_calls[entry] <= TimesTaken(entry)
    /\ unfinished_tasks >= 0

\* main is over: every item was taken and marked done once, every worker
\* got one None and returned, the queue is empty
AllDoneOnce ==
    /\ \A entry \in QueuedItems :
          /\ TimesTaken(entry) = 1
          /\ task_done_calls[entry] = 1
    /\ TimesTaken(NONE) = worker_count
    /\ task_done_calls[NONE] = worker_count
    /\ \A w \in Workers : worker_pc[w] = "returned"
    /\ work_queue = <<>>
    /\ unfinished_tasks = 0

\* C25: every queued item is taken by exactly one worker and marked done
\* exactly once, queue.join() eventually returns, each worker then receives
\* exactly one None and exits, and main terminates.
C25_QueueDrainsAndMainTerminates ==
    /\ []NothingTwice
    /\ [](tpc = "gather" => \A entry \in QueuedItems : task_done_calls[entry] = 1)
    /\ <>(tpc = "gather")
    /\ <>(tpc = "done")
    /\ [](tpc = "done" => AllDoneOnce)

\* main is over after two workers shared the items of a full queue; each
\* worker was handed one None
C25_Witness ==
    /\ tpc = "done"
    /\ worker_count = 2
    /\ Len(request_log) = 2
    /\ AllDoneOnce

\* workers that have built a row and not yet written it
RowBuilders == {w \in Workers : worker_pc[w] = "row_built"}

\* a step of a worker or of main (every one of them moves worker_pc or
\* tpc) taken while a worker holds a built row is that worker's
\* writer.writerow of the row
NextStepWritesTheRow ==
    \A w \in RowBuilders :
        /\ worker_pc'[w] = "get"
        /\ plan_rows' = Append(plan_rows, worker_item[w])

\* C26: rows from concurrent workers are written one at a time: no other
\* worker runs between a worker building its row and the end of its
\* writer.writerow call, and the shared writer has one writer at a time.
C26_RowWritesNeverInterleave ==
    /\ [](Cardinality(RowBuilders) <= 1)
    /\ [](\A w \in RowBuilders : running = w)
    /\ [][NextStepWritesTheRow]_<<worker_pc, tpc>>

\* a worker holds a built row while the fetch of another worker is ready to
\* return
C26_Witness ==
    /\ worker_count = 2
    /\ \E w \in Workers : worker_pc[w] = "row_built"
    /\ \E w \in Workers : worker_pc[w] = "fetch"

\* C27: fetch(url, max_retries=n) with n >= 1 makes at most n attempts,
\* returns the body of the first attempt that succeeds without attempting
\* again, sleeps 1.5*attempt seconds between a failed attempt and the next
\* one, and raises the last attempt's exception if and only if all n
\* attempts fail.
C27_RetryPolicy ==
    /\ retry_attempt <= retry_max_retries
    /\ Len(retry_errors) <= retry_max_retries
    /\ retry_pc = "returned" =>
          /\ retry_attempt = Len(retry_errors) + 1
          /\ retry_result = response_text(retry_attempt)
    /\ retry_sleeps = [k \in 1..Len(retry_sleeps) |-> 15 * k]
    /\ Len(retry_sleeps) = retry_attempt - 1
    /\ retry_pc = "raised" <=> Len(retry_errors) = retry_max_retries
    /\ retry_pc = "raised" => retry_result = retry_errors[retry_max_retries]

\* three attempts failed: two sleeps of 1.5 and 3.0 seconds, and the third
\* exception, of another kind than the first two, is raised
C27_Witness ==
    /\ retry_max_retries = 3
    /\ retry_pc = "raised"
    /\ retry_sleeps = <<15, 30>>
    /\ retry_errors = <<"Timeout", "Timeout", "HTTPError">>
    /\ retry_result = "HTTPError"

----------------------------------------------------------------------------
(* C28: repeated targets are removed before the detail crawl *)

NoRepeats(items) ==
    \A i, j \in 1..Len(items) : i # j => items[i] # items[j]

\* the position at which a value first stands in a sequence
FirstIndex(items, value) ==
    CHOOSE i \in 1..Len(items) :
        items[i] = value /\ \A j \in 1..(i - 1) : items[j] # value

\* kept holds every value of items once, in the order of first occurrence
IsFirstOccurrencesOf(kept, items) ==
    /\ NoRepeats(kept)
    /\ Range(kept) = Range(items)
    /\ \A a, b \in 1..Len(kept) :
           a < b => FirstIndex(items, kept[a]) < FirstIndex(items, kept[b])

\* the keys LG_UMobile_URL_collector met on the list pages it has gone
\* through, in order
CandidateKeysSoFar ==
    Flatten([k \in 1..(list_index - 1) |->
        IF list_responses[k].ok
        THEN LET cand == extract_detail_urls_from_list(list_responses[k].buttons)
             IN  [i \in 1..Len(cand) |-> key_of(cand[i])]
        ELSE <<>>])

AppendedKeys == [i \in 1..Len(appended_rows) |-> appended_rows[i].key]

\* the rows a pass of Wooriwonmobile's loop adds to collected_rows: the
\* page's plan_identifiers not collected before, each once, in page order
NewOnPage ==
    LET on_page == extract_cards_on_list_page(list_page.cards)
    IN  SelectSeq([i \in 1..Len(on_page) |->
                      IF i = FirstIndex(on_page, on_page[i]) THEN on_page[i] ELSE ""],
                  LAMBDA id : id # "" /\ id \notin Range(collected_rows))

PaginationCollects ==
    (pagination_pc = "extract" /\ pagination_pc' # "raised")
        => collected_rows' = collected_rows \o NewOnPage

\* C28: the URLs SK_7mobile_cwl and LG_UMobile_Data_collector visit are the
\* collected URLs with repeats removed, first occurrences in their order, and
\* no URL is visited or written twice; the rows LG_UMobile_URL_collector
\* appends carry the keys met so far, each once, in the order of first
\* occurrence; Wooriwonmobile's collected_rows never holds a plan_identifier
\* twice and every pass appends exactly the page's new ones in page order.
C28_NoTargetTwice ==
    /\ [](dpc \in {"loop", "done"} =>
            /\ IsFirstOccurrencesOf(VisitedUrls, all_detail_urls)
            /\ NoRepeats(rows)
            /\ NoRepeats(out_csv_rows)
            /\ Len(outcomes) <= Len(VisitedUrls))
    /\ [](collector_pc \in {"lists", "done"} =>
            /\ IsFirstOccurrencesOf(AppendedKeys, CandidateKeysSoFar)
            /\ seen_keys = Range(AppendedKeys)
            /\ total = Len(appended_rows))
    /\ [](/\ NoRepeats(collected_rows)
          /\ Range(collected_rows) = seen_plan_identifier_set)
    /\ [][PaginationCollects]_vars

\* LG_UMobile_URL_collector ended after a key came up again on a later list
\* page
CollectorMetKeyAgain ==
    /\ collector_pc = "done"
    /\ Len(CandidateKeysSoFar) > Len(appended_rows)
    /\ Len(appended_rows) >= 3
    /\ appended_rows[3].list = 2

\* Wooriwonmobile's loop went through a second page that showed a plan again
PaginationMetPlanAgain ==
    /\ pagination_pc = "returned"
    /\ visited_page_count = 2
    /\ Len(collected_rows) = 3

C28_Witness == CollectorMetKeyAgain \/ PaginationMetPlanAgain

----------------------------------------------------------------------------
(* C29: when Wooriwonmobile's pagination loop ends *)

\* iterate_rate_plan_list_pages has returned or has raised
PaginationOver == pagination_pc \in {"returned", "raised"}

\* the page on show ends the loop at its next pass: it has no card, no card
\* with an id, or no usable next button
StoppingPageShown ==
    /\ pagination_pc = "extract"
    /\ \/ extract_cards_on_list_page(list_page.cards) = <<>>
       \/ list_page.next # "enabled"

\* the reason the loop was left for agrees with what the page showed
StopReasonFits ==
    /\ stop_reason = "limit" =>
           /\ maximum_list_pages_to_visit # 0
           /\ visited_page_count = maximum_list_pages_to_visit
    /\ stop_reason = "next_missing" => list_page.next = "missing"
    /\ stop_reason = "next_disabled" => list_page.next = "disabled"
    /\ stop_reason = "no_first_card" =>
           /\ list_page.next = "enabled"
           /\ extract_cards_on_list_page(list_page.cards) = <<>>
    /\ stop_reason = "first_unchanged" =>
           ~first_card_changed(list_page.cards, first_plan_identifier_before)

\* the next button is clicked only when it is usable, the page gave a first
\* plan_identifier and the page limit is not reached
ClickWasAllowed ==
    /\ list_page.next = "enabled"
    /\ first_plan_identifier_before # ""
    /\ first_plan_identifier_before
           = first_card_plan_identifier(extract_cards_on_list_page(list_page.cards))
    /\ maximum_list_pages_to_visit # 0 =>
           visited_page_count < maximum_list_pages_to_visit

----------------------------------------------------------------------------
(* C30: the popups of scrape_plans *)

\* the page met every expectation the run put to it: the tablist was
\* visible and every tab asked for was there and became selected
PageMetEveryExpectation ==
    popup_error \notin {"AssertionError", "TimeoutError"}

\* one entry per rate item of the list, in list order
EntriesInClickOrder ==
    /\ Len(popup_results) = Len(clicked_items)
    /\ \A k \in 1..Len(popup_results) : popup_results[k] = clicked_items[k]

====
